---- MODULE Spec2Model ----
(***************************************************************************)
(* A model of the aversion crate: the fixed-size header codecs             *)
(* (TinyHeader, FixedHeader, BasicHeader), the code generated by the       *)
(* derive macros UpgradeLatest and GroupDeserialize, the default method    *)
(* GroupDeserialize::expect_message, and the two DataSource               *)
(* implementations of the repository (the test's MyStream and CborData).   *)
(*                                                                         *)
(* Numbers wider than 16 bits are kept as big-endian sequences of 16-bit   *)
(* limbs (a u32 is <<hi, lo>>, a u64 has four limbs), so that the full     *)
(* range of a u32 and its overflow are represented exactly.                *)
(***************************************************************************)
EXTENDS Integers, Sequences, FiniteSets, TLC

VARIABLES
    \* ---- one read call on one DataSource --------------------------------
    src_kind,         \* which DataSource implementation: "MyStream" | "CborData"
    hooks,            \* "default" (the trait's panicking hooks) | "overridden"
    overflow_checks,  \* build configuration: does u32 `+` panic on overflow?
    stream,           \* the bytes of the underlying reader
    pos,              \* how many bytes of the reader have been consumed
    op,               \* the operation called: "read_message" | "expect_Foo" | "expect_Bar"
    pc,               \* position of the call
    header,           \* the header returned by read_header
    target,           \* the family whose upgrade_latest was selected
    result,           \* what the call returned (or that it panicked)
    calls,            \* the DataSource methods called so far, in order
    convs,            \* the from_version steps applied so far, in order
    \* ---- the header codec on its own -------------------------------------
    c_hdr,            \* the header value being encoded
    c_pc,             \* "new" | "written" | "array" | "read" | "fromarray"
    c_out,            \* outcome of the encoding: bytes written, or a panic
    c_dec,            \* outcome of the decoding
    \* ---- one write_message call on a CborData sink -----------------------
    w_msg,            \* the message being written
    w_pc,             \* position of the call
    w_buf,            \* msg_buf: the serialized payload
    w_hdr,            \* the header built for the message
    w_inner,          \* the sink's writer: [buf, cap]
    w_start,          \* how many bytes the writer held before the call
    w_log,            \* what the call has done so far, in order
    w_res,            \* what the call returned
    w_back,           \* what reading the written bytes back returned
    \* ---- conversions between the versions of a family --------------------
    cv_oc,            \* build configuration, as overflow_checks
    cv_from,          \* the value the conversions started from
    cv_val,           \* the value reached
    cv_steps,         \* the from_version calls made by the caller, in order
    \* ---- derive(Versioned) on a struct name ------------------------------
    nm_name,          \* the struct's name, a sequence of characters
    nm_info,          \* what derive(Versioned) made of it
    nm_latest,        \* what derive(UpgradeLatest) generated for it
    \* ---- callers, each with a source of its own --------------------------
    build,            \* [hooks, oc]: the hooks of the sources, overflow checks
    sources,          \* caller -> [kind, stream, pos]: the caller's source
    running,          \* caller -> the call the caller is in, and how far it is
    returned          \* caller -> what its calls returned so far, in order

vars == << src_kind, hooks, overflow_checks, stream, pos, op, pc, header,
           target, result, calls, convs, c_hdr, c_pc, c_out, c_dec,
           w_msg, w_pc, w_buf, w_hdr, w_inner, w_start, w_log, w_res, w_back,
           cv_oc, cv_from, cv_val, cv_steps, nm_name, nm_info, nm_latest,
           build, sources, running, returned >>

sinkVars == << w_msg, w_pc, w_buf, w_hdr, w_inner, w_start, w_log, w_res, w_back >>
convVars == << cv_oc, cv_from, cv_val, cv_steps >>
nameVars == << nm_name, nm_info, nm_latest >>
callerVars == << build, sources, running, returned >>

readVars  == << src_kind, hooks, overflow_checks, stream, pos, op, pc, header,
                target, result, calls, convs >>
codecVars == << c_hdr, c_pc, c_out, c_dec >>

(***************************************************************************)
(* Bounds of the model.                                                    *)
(***************************************************************************)
\* Field values are probed within Edge of both ends of their range.
Edge == 1
\* Struct names of every length up to MaxNameLen are derived on.
MaxNameLen == 4
\* Version numbers 0..MaxVer are probed in headers (latest of Foo is 3).
MaxVer == 4
\* A value is converted by at most MaxConvCalls calls, one after another.
MaxConvCalls == 3
\* A caller makes at most MaxCalls read calls on its source, one after another.
MaxCalls == 2

(***************************************************************************)
(* Integers of the program.                                                *)
(***************************************************************************)
Byte   == 0 .. 255
U16Max == 65535
U16    == 0 .. U16Max

\* A u32 as two 16-bit limbs, a u64 as four.
U32Of(hi, lo) == << hi, lo >>
U32Zero       == << 0, 0 >>
U32MaxVal     == << U16Max, U16Max >>

RECURSIVE StripZeros(_)
StripZeros(v) == IF Len(v) > 1 /\ v[1] = 0 THEN StripZeros(Tail(v)) ELSE v

RECURSIVE PadLimbs(_, _)
PadLimbs(v, n) == IF Len(v) >= n THEN v ELSE PadLimbs(<< 0 >> \o v, n)

\* The number of limbs a value needs.
LimbsNeeded(v) == Len(StripZeros(v))

\* A small natural number as a value of `n` limbs.
Small(k, n) == PadLimbs(<< k >>, n)

\* u32 `+ k` (k < 65536): the wrapped sum and whether it overflowed.
Add32(x, k) ==
    LET lo == x[2] + k
        hi == x[1] + (lo \div 65536)
    IN  [ val |-> << hi % 65536, lo % 65536 >>, overflow |-> hi > U16Max ]

\* Big-endian bytes.
BE16(n)    == << n \div 256, n % 256 >>
RECURSIVE BELimbs(_)
BELimbs(v) == IF v = << >> THEN << >> ELSE BE16(v[1]) \o BELimbs(Tail(v))
FromBE16(b1, b2) == b1 * 256 + b2

Prefix(s, n) == SubSeq(s, 1, IF n < Len(s) THEN n ELSE Len(s))
Drop(s, n)   == SubSeq(s, n + 1, Len(s))
Min(a, b)    == IF a < b THEN a ELSE b

(***************************************************************************)
(* std::io::Write and std::io::Read as the header codec uses them.         *)
(***************************************************************************)
\* A writer: the bytes it holds and its capacity (Unbounded for a Vec).
Unbounded == -1
VecWriter        == [ buf |-> << >>, cap |-> Unbounded ]
SliceWriter(len) == [ buf |-> << >>, cap |-> len ]

\* Write::write_all: all bytes are taken, or the call fails (WriteZero) after
\* taking the bytes that fit.
WriteAll(w, bytes) ==
    IF w.cap = Unbounded \/ Len(w.buf) + Len(bytes) <= w.cap
    THEN [ ok |-> TRUE,  w |-> [ w EXCEPT !.buf = @ \o bytes ] ]
    ELSE [ ok |-> FALSE, w |-> [ w EXCEPT !.buf = @ \o Prefix(bytes, w.cap - Len(w.buf)) ] ]

\* byteorder's write_u16::<BigEndian> and write_u32::<BigEndian>.
WriteU16(w, n) == WriteAll(w, BE16(n))
WriteU32(w, x) == WriteAll(w, BELimbs(x))

\* Read::read_exact of n bytes at offset `at` of `data`: the bytes, or
\* UnexpectedEof when fewer than n remain.
ReadExact(data, at, n) ==
    IF Len(data) - at >= n
    THEN [ ok |-> TRUE,  bytes |-> SubSeq(data, at + 1, at + n), at |-> at + n ]
    ELSE [ ok |-> FALSE, bytes |-> << >>, at |-> at ]

\* byteorder's read_u16::<BigEndian> and read_u32::<BigEndian>.
ReadU16(data, at) ==
    LET r == ReadExact(data, at, 2)
    IN  [ ok |-> r.ok, at |-> r.at,
          val |-> IF r.ok THEN FromBE16(r.bytes[1], r.bytes[2]) ELSE 0 ]
ReadU32(data, at) ==
    LET r == ReadExact(data, at, 4)
    IN  [ ok |-> r.ok, at |-> r.at,
          val |-> IF r.ok THEN U32Of(FromBE16(r.bytes[1], r.bytes[2]),
                                     FromBE16(r.bytes[3], r.bytes[4]))
                  ELSE U32Zero ]

(***************************************************************************)
(* Header values.  TinyHeader and FixedHeader have the fields msg_id and   *)
(* msg_ver; BasicHeader adds msg_len (a u32).  In the model every header   *)
(* is one record; msg_len is U32Zero where the shape has no such field.    *)
(***************************************************************************)
NoHeader == [ shape |-> "none", msg_id |-> 0, msg_ver |-> 0, msg_len |-> U32Zero ]

TinyHeader_new(id, ver) ==
    [ shape |-> "Tiny", msg_id |-> id, msg_ver |-> ver, msg_len |-> U32Zero ]
FixedHeader_new(id, ver) ==
    [ shape |-> "Fixed", msg_id |-> id, msg_ver |-> ver, msg_len |-> U32Zero ]
BasicHeader_new(id, ver, len) ==
    [ shape |-> "Basic", msg_id |-> id, msg_ver |-> ver, msg_len |-> len ]

\* GroupHeader::msg_id and GroupHeader::msg_ver.
msg_id(h)  == h.msg_id
msg_ver(h) == h.msg_ver

\* The length of the array that `serialize` fills and `deserialize` takes.
TinyArrayLen  == 4
FixedArrayLen == 4
BasicArrayLen == 4

(***************************************************************************)
(* serialize_into: the fields in declaration order, each with `?`.         *)
(* The result is [ok, w]: whether every write succeeded, and the writer.   *)
(***************************************************************************)
\* A variant of TinyHeader::serialize_into that writes little-endian.
TinyHeader_serialize_into_LittleEndian(h, w) ==
    LET r1 == WriteAll(w, << h.msg_id % 256, h.msg_id \div 256 >>)
    IN  IF ~r1.ok THEN r1
        ELSE WriteAll(r1.w, << h.msg_ver % 256, h.msg_ver \div 256 >>)

TinyHeader_serialize_into(h, w) ==
    LET r1 == WriteU16(w, h.msg_id)
    IN  IF ~r1.ok THEN r1 ELSE WriteU16(r1.w, h.msg_ver)

FixedHeader_serialize_into(h, w) ==
    LET r1 == WriteU16(w, h.msg_id)
    IN  IF ~r1.ok THEN r1 ELSE WriteU16(r1.w, h.msg_ver)

BasicHeader_serialize_into(h, w) ==
    LET r1 == WriteU16(w, h.msg_id)
    IN  IF ~r1.ok THEN r1
        ELSE LET r2 == WriteU16(r1.w, h.msg_ver)
             IN  IF ~r2.ok THEN r2 ELSE WriteU32(r2.w, h.msg_len)

(***************************************************************************)
(* serialize: a zeroed array, a slice of it as the writer, serialize_into  *)
(* unwrapped.  The result is the array, or a panic when the unwrap fails.  *)
(***************************************************************************)
Zeros(n) == [ i \in 1 .. n |-> 0 ]
Overlay(arrayLen, written) == written \o Zeros(arrayLen - Len(written))

TinyHeader_serialize(h) ==
    LET r == TinyHeader_serialize_into(h, SliceWriter(TinyArrayLen))
    IN  IF r.ok THEN [ tag |-> "Ok", bytes |-> Overlay(TinyArrayLen, r.w.buf) ]
                ELSE [ tag |-> "Panic", bytes |-> << >> ]

FixedHeader_serialize(h) ==
    LET r == FixedHeader_serialize_into(h, SliceWriter(FixedArrayLen))
    IN  IF r.ok THEN [ tag |-> "Ok", bytes |-> Overlay(FixedArrayLen, r.w.buf) ]
                ELSE [ tag |-> "Panic", bytes |-> << >> ]

BasicHeader_serialize(h) ==
    LET r == BasicHeader_serialize_into(h, SliceWriter(BasicArrayLen))
    IN  IF r.ok THEN [ tag |-> "Ok", bytes |-> Overlay(BasicArrayLen, r.w.buf) ]
                ELSE [ tag |-> "Panic", bytes |-> << >> ]

(***************************************************************************)
(* deserialize_from: the fields in declaration order, each with `?`.       *)
(* The result is [tag, hdr, at]: Ok with the header, or Err (the io::Error *)
(* UnexpectedEof of read_exact); `at` is the offset after the last field   *)
(* that was read.                                                          *)
(***************************************************************************)
TinyHeader_deserialize_from(data, at) ==
    LET r1 == ReadU16(data, at)
        r2 == ReadU16(data, r1.at)
    IN  IF ~r1.ok THEN [ tag |-> "Err", hdr |-> NoHeader, at |-> r1.at ]
        ELSE IF ~r2.ok THEN [ tag |-> "Err", hdr |-> NoHeader, at |-> r2.at ]
        ELSE [ tag |-> "Ok", hdr |-> TinyHeader_new(r1.val, r2.val), at |-> r2.at ]

FixedHeader_deserialize_from(data, at) ==
    LET r1 == ReadU16(data, at)
        r2 == ReadU16(data, r1.at)
    IN  IF ~r1.ok THEN [ tag |-> "Err", hdr |-> NoHeader, at |-> r1.at ]
        ELSE IF ~r2.ok THEN [ tag |-> "Err", hdr |-> NoHeader, at |-> r2.at ]
        ELSE [ tag |-> "Ok", hdr |-> FixedHeader_new(r1.val, r2.val), at |-> r2.at ]

\* A variant of BasicHeader::deserialize_from that takes a missing msg_len
\* for zero.
BasicHeader_deserialize_from_LenOptional(data, at) ==
    LET r1 == ReadU16(data, at)
        r2 == ReadU16(data, r1.at)
        r3 == ReadU32(data, r2.at)
    IN  IF ~r1.ok THEN [ tag |-> "Err", hdr |-> NoHeader, at |-> r1.at ]
        ELSE IF ~r2.ok THEN [ tag |-> "Err", hdr |-> NoHeader, at |-> r2.at ]
        ELSE [ tag |-> "Ok", hdr |-> BasicHeader_new(r1.val, r2.val, r3.val), at |-> r3.at ]

BasicHeader_deserialize_from(data, at) ==
    LET r1 == ReadU16(data, at)
        r2 == ReadU16(data, r1.at)
        r3 == ReadU32(data, r2.at)
    IN  IF ~r1.ok THEN [ tag |-> "Err", hdr |-> NoHeader, at |-> r1.at ]
        ELSE IF ~r2.ok THEN [ tag |-> "Err", hdr |-> NoHeader, at |-> r2.at ]
        ELSE IF ~r3.ok THEN [ tag |-> "Err", hdr |-> NoHeader, at |-> r3.at ]
        ELSE [ tag |-> "Ok", hdr |-> BasicHeader_new(r1.val, r2.val, r3.val), at |-> r3.at ]

(***************************************************************************)
(* deserialize: deserialize_from over the array, unwrapped.                *)
(***************************************************************************)
TinyHeader_deserialize(buf) ==
    LET r == TinyHeader_deserialize_from(buf, 0)
    IN  IF r.tag = "Ok" THEN r ELSE [ tag |-> "Panic", hdr |-> NoHeader, at |-> r.at ]

FixedHeader_deserialize(buf) ==
    LET r == FixedHeader_deserialize_from(buf, 0)
    IN  IF r.tag = "Ok" THEN r ELSE [ tag |-> "Panic", hdr |-> NoHeader, at |-> r.at ]

BasicHeader_deserialize(buf) ==
    LET r == BasicHeader_deserialize_from(buf, 0)
    IN  IF r.tag = "Ok" THEN r ELSE [ tag |-> "Panic", hdr |-> NoHeader, at |-> r.at ]

\* The four codec functions of a header, selected by its shape.
SerializeInto(h, w) ==
    CASE h.shape = "Tiny"  -> TinyHeader_serialize_into(h, w)
      [] h.shape = "Fixed" -> FixedHeader_serialize_into(h, w)
      [] h.shape = "Basic" -> BasicHeader_serialize_into(h, w)
Serialize(h) ==
    CASE h.shape = "Tiny"  -> TinyHeader_serialize(h)
      [] h.shape = "Fixed" -> FixedHeader_serialize(h)
      [] h.shape = "Basic" -> BasicHeader_serialize(h)
DeserializeFrom(shape, data, at) ==
    CASE shape = "Tiny"  -> TinyHeader_deserialize_from(data, at)
      [] shape = "Fixed" -> FixedHeader_deserialize_from(data, at)
      [] shape = "Basic" -> BasicHeader_deserialize_from(data, at)
Deserialize(shape, buf) ==
    CASE shape = "Tiny"  -> TinyHeader_deserialize(buf)
      [] shape = "Fixed" -> FixedHeader_deserialize(buf)
      [] shape = "Basic" -> BasicHeader_deserialize(buf)
ArrayLen(shape) ==
    CASE shape = "Tiny"  -> TinyArrayLen
      [] shape = "Fixed" -> FixedArrayLen
      [] shape = "Basic" -> BasicArrayLen

\* The size of a header on the wire: the bytes its fields occupy.
WireSize(shape) == IF shape = "Basic" THEN 2 + 2 + 4 ELSE 2 + 2

(***************************************************************************)
(* The message families of the test suite (group_test.rs).                 *)
(* A message value is [base, ver, v]: the struct <base>V<ver> whose single *)
(* integer field holds v.                                                  *)
(***************************************************************************)
Families == { "Foo", "Bar" }

\* assign_message_ids! { Foo: 123, Bar: 999 }
MSG_ID(base) == CASE base = "Foo" -> 123 [] base = "Bar" -> 999

\* struct_version of the struct UpgradeLatest is derived on (FooV3, BarV1).
struct_version(base) == CASE base = "Foo" -> 3 [] base = "Bar" -> 1 [] base = "MyStruct" -> 3

\* The variants of enum MyGroup1, in declaration order.
MyGroup1 == << "Foo", "Bar" >>

\* The name of the single field of <base>V<ver>, as ASCII bytes:
\* "foo", "foo2", "foo3", "bar".
FieldName(base, ver) ==
    CASE base = "Foo" /\ ver = 1 -> << 102, 111, 111 >>
      [] base = "Foo" /\ ver = 2 -> << 102, 111, 111, 50 >>
      [] base = "Foo" /\ ver = 3 -> << 102, 111, 111, 51 >>
      [] base = "Bar" /\ ver = 1 -> << 98, 97, 114 >>

\* The width of that field in 16-bit limbs: u32 for Foo, u64 for Bar.
FieldLimbs(base) == CASE base = "Foo" -> 2 [] base = "Bar" -> 4

Msg(base, ver, v) == [ base |-> base, ver |-> ver, v |-> v ]
NoMsg    == [ base |-> "none",  ver |-> 0, v |-> << >> ]
\* The outcome of a conversion that panicked (arithmetic overflow).
PanicMsg == [ base |-> "panic", ver |-> 0, v |-> << >> ]

\* <T as Versioned>::VER of the type of a message value.
VER(msg) == msg.ver

\* A variant of TinyHeader::for_msg with the two fields taken for each other.
TinyHeader_for_msg_Swapped(msg) == TinyHeader_new(VER(msg), MSG_ID(msg.base))

\* <Header>::for_msg(&msg): msg_id is T::Base::MSG_ID, msg_ver is T::VER.
TinyHeader_for_msg(msg)  == TinyHeader_new(MSG_ID(msg.base), VER(msg))
FixedHeader_for_msg(msg) == FixedHeader_new(MSG_ID(msg.base), VER(msg))
BasicHeader_for_msg(msg, msg_len) == BasicHeader_new(MSG_ID(msg.base), VER(msg), msg_len)

(***************************************************************************)
(* The user-written adjacent conversions of the test suite.                *)
(* `oc` says whether the build checks arithmetic overflow (then `+`        *)
(* panics) or wraps.                                                       *)
(***************************************************************************)
\* impl FromVersion<FooV1> for FooV2: foo2 = v1.foo + 1
FooV2_from_version(v1, oc) ==
    LET s == Add32(v1.v, 1)
    IN  IF s.overflow /\ oc THEN PanicMsg ELSE Msg("Foo", 2, s.val)

\* impl FromVersion<FooV2> for FooV3: foo3 = v2.foo2 + 10
FooV3_from_version(v2, oc) ==
    LET s == Add32(v2.v, 10)
    IN  IF s.overflow /\ oc THEN PanicMsg ELSE Msg("Foo", 3, s.val)

\* The family MyStruct of versioned.rs.  MyStructV1 { x: u64 } holds the
\* four limbs of x; MyStructV2 { x: u64, y: u8 } holds them followed by y;
\* MyStructV3 { x: u64, y: u64 } holds the limbs of x followed by those of y.
\* impl FromVersion<MyStructV1> for MyStructV2: Self { x: msv1.x, y: 0 }
MyStructV2_from_version(msv1) == Msg("MyStruct", 2, msv1.v \o << 0 >>)

\* impl FromVersion<MyStructV2> for MyStructV3: Self { x: msv2.x, y: msv2.y.into() }
MyStructV3_from_version(msv2) ==
    Msg("MyStruct", 3, SubSeq(msv2.v, 1, 4) \o << 0, 0, 0, msv2.v[5] >>)

\* A variant of the direct conversion that fills y itself, with x.
MyStructV3_from_MyStructV1_CopiesX(msv1) == Msg("MyStruct", 3, msv1.v \o msv1.v)

\* impl FromVersion<MyStructV1> for MyStructV3:
\* `let msv2 = MyStructV2::from_version(msv1); MyStructV3::from_version(msv2)`
MyStructV3_from_MyStructV1(msv1) == MyStructV3_from_version(MyStructV2_from_version(msv1))

\* The user-written impl FromVersion<<base>V<from>> for <base>V<from + 1>.
AdjacentStep(base, from, val, oc) ==
    CASE base = "Foo" /\ from = 1 -> FooV2_from_version(val, oc)
      [] base = "Foo" /\ from = 2 -> FooV3_from_version(val, oc)
      [] base = "MyStruct" /\ from = 1 -> MyStructV2_from_version(val)
      [] base = "MyStruct" /\ from = 2 -> MyStructV3_from_version(val)
      [] OTHER -> PanicMsg

\* One entry of the conversion log.
Conv(impl, base, from, to) == [ impl |-> impl, base |-> base, from |-> from, to |-> to ]

(***************************************************************************)
(* derive(UpgradeLatest): the generated hops.                              *)
(***************************************************************************)
\* A variant of all_hops that starts at version 2.
all_hops_FromTwo(hi) == { ii \in 2 .. hi : ii < hi - 1 }

\* all_hops = (1..struct_version - 1): the `lo` of every hop asked for.
all_hops(hi) == { ii \in 1 .. hi : ii < hi - 1 }

\* quote_from_version_hop emits an impl only when hi - lo >= 2.
HopEmitted(lo, hi) == lo \in all_hops(hi) /\ ~(hi - lo < 2)

\* upgrade_chain: for ii in lo..hi, `let v<ii+1> = <base>V<ii+1>::from_version(v<ii>)`.
\* The result is [val, trace]: the value v<hi> and the steps applied.
RECURSIVE upgrade_chain(_, _, _, _, _)
upgrade_chain(base, ii, hi, val, oc) ==
    IF ii >= hi \/ val = PanicMsg
    THEN [ val |-> val, trace |-> << >> ]
    ELSE LET rest == upgrade_chain(base, ii + 1, hi, AdjacentStep(base, ii, val, oc), oc)
         IN  [ val |-> rest.val,
               trace |-> << Conv("user", base, ii, ii + 1) >> \o rest.trace ]

\* A variant of the generated hop whose chain starts one version late.
quote_from_version_hop_SkipsFirst(base, lo, hi, val, oc) ==
    LET c == upgrade_chain(base, lo + 1, hi, val, oc)
    IN  [ val |-> c.val, trace |-> << Conv("hop", base, lo, hi) >> \o c.trace ]

\* The generated impl FromVersion<<base>V<lo>> for <base>V<hi>.
quote_from_version_hop(base, lo, hi, val, oc) ==
    LET c == upgrade_chain(base, lo, hi, val, oc)
    IN  [ val |-> c.val, trace |-> << Conv("hop", base, lo, hi) >> \o c.trace ]

\* A variant of the impl selection in which the derive covers from = to by a
\* hop instead of leaving it to the reflexive impl.
FromVersion_HopForSame(base, from, to, val, oc) ==
    IF to = from + 1
    THEN [ val |-> AdjacentStep(base, from, val, oc),
           trace |-> << Conv("user", base, from, to) >> ]
    ELSE quote_from_version_hop(base, from, to, val, oc)

\* <<base>V<to> as FromVersion<<base>V<from>>>::from_version(val): the impl the
\* compiler selects.  The reflexive impl for from = to, the user-written one
\* for adjacent versions (and for MyStruct 1 -> 3, written by hand), the
\* generated hop otherwise.
FromVersion(base, from, to, val, oc) ==
    IF from = to
    THEN [ val |-> val, trace |-> << Conv("reflexive", base, from, to) >> ]
    ELSE IF to = from + 1
    THEN [ val |-> AdjacentStep(base, from, val, oc),
           trace |-> << Conv("user", base, from, to) >> ]
    ELSE IF base = "MyStruct" /\ from = 1 /\ to = 3
    THEN [ val |-> MyStructV3_from_MyStructV1(val),
           trace |-> << Conv("user", base, from, to) >> ]
    ELSE IF HopEmitted(from, to)
    THEN quote_from_version_hop(base, from, to, val, oc)
    ELSE [ val |-> PanicMsg, trace |-> << Conv("missing", base, from, to) >> ]

\* A variant of the blanket impl that always converts to the latest version
\* of the family.
into_version_Latest(base, from, to, val, oc) ==
    FromVersion(base, from, struct_version(base), val, oc)

\* <<base>V<from> as IntoVersion<<base>V<to>>>::into_version(val): the blanket
\* impl for every T and U with U: FromVersion<T>, `U::from_version(self)`.
into_version(base, from, to, val, oc) == FromVersion(base, from, to, val, oc)

(***************************************************************************)
(* The payload codec: serde_cbor as the DataSource implementations call    *)
(* it.  A struct with one integer field is a CBOR map of one entry, whose  *)
(* key is the field name as a text string and whose value is an unsigned   *)
(* integer in its shortest form.                                           *)
(***************************************************************************)
\* An unsigned integer (major type 0), shortest form.
CborUint(v) ==
    LET s == StripZeros(v)
    IN  IF Len(s) = 1
        THEN IF s[1] < 24 THEN << s[1] >>
             ELSE IF s[1] < 256 THEN << 24, s[1] >>
             ELSE << 25 >> \o BE16(s[1])
        ELSE IF Len(s) = 2 THEN << 26 >> \o BELimbs(s)
        ELSE << 27 >> \o BELimbs(PadLimbs(s, 4))

\* serde_cbor::to_writer of the message: map(1) { text(field) : uint }.
to_writer(msg) ==
    LET name == FieldName(msg.base, msg.ver)
    IN  << 160 + 1, 96 + Len(name) >> \o name \o CborUint(msg.v)

\* Parse one unsigned integer at offset `at` of `b`.
\* [tag, val, at]: Ok with the value (leading zero limbs stripped), Eof when
\* the bytes run out, Syntax for any other initial byte.
ParseUint(b, at) ==
    IF at >= Len(b) THEN [ tag |-> "Eof", val |-> << >>, at |-> at ]
    ELSE LET fb == b[at + 1]
             need == CASE fb < 24 -> 0 [] fb = 24 -> 1 [] fb = 25 -> 2
                       [] fb = 26 -> 4 [] fb = 27 -> 8 [] OTHER -> 0
             r == ReadExact(b, at + 1, need)
         IN  IF fb > 27 THEN [ tag |-> "Syntax", val |-> << >>, at |-> at + 1 ]
             ELSE IF ~r.ok THEN [ tag |-> "Eof", val |-> << >>, at |-> at + 1 ]
             ELSE [ tag |-> "Ok", at |-> r.at,
                    val |-> CASE fb < 24 -> << fb >>
                              [] fb = 24 -> << r.bytes[1] >>
                              [] fb = 25 -> << FromBE16(r.bytes[1], r.bytes[2]) >>
                              [] fb = 26 -> StripZeros(<< FromBE16(r.bytes[1], r.bytes[2]),
                                                          FromBE16(r.bytes[3], r.bytes[4]) >>)
                              [] fb = 27 -> StripZeros(<< FromBE16(r.bytes[1], r.bytes[2]),
                                                          FromBE16(r.bytes[3], r.bytes[4]),
                                                          FromBE16(r.bytes[5], r.bytes[6]),
                                                          FromBE16(r.bytes[7], r.bytes[8]) >>) ]

\* Parse one text string (major type 3, length < 24) at offset `at` of `b`.
ParseText(b, at) ==
    IF at >= Len(b) THEN [ tag |-> "Eof", val |-> << >>, at |-> at ]
    ELSE LET fb == b[at + 1]
             r == ReadExact(b, at + 1, fb - 96)
         IN  IF fb < 96 \/ fb > 96 + 23 THEN [ tag |-> "Syntax", val |-> << >>, at |-> at + 1 ]
             ELSE IF ~r.ok THEN [ tag |-> "Eof", val |-> << >>, at |-> at + 1 ]
             ELSE [ tag |-> "Ok", val |-> r.bytes, at |-> r.at ]

\* serde_cbor::from_reader::<<base>V<ver>>(b), for the inputs of this model:
\* a map of one entry with a text key and an unsigned value, a bare unsigned
\* integer, a break byte, or a prefix of these.
\*   - the field is looked up by name; an entry under another name is
\*     skipped, and the struct then misses its field (Data);
\*   - the value must fit the field's width (Data otherwise);
\*   - after the value, from_reader calls end(): one more byte is read, and
\*     if there is one the call fails with TrailingData (Syntax).
\* [tag, msg, used]: the outcome, the message, and the bytes of `b` consumed.
from_reader(b, base, ver) ==
    IF Len(b) = 0 THEN [ tag |-> "Eof", msg |-> NoMsg, used |-> 0 ]
    ELSE IF b[1] = 160 + 1
    THEN LET k == ParseText(b, 1)
             u == ParseUint(b, k.at)
         IN  IF k.tag # "Ok" THEN [ tag |-> k.tag, msg |-> NoMsg, used |-> k.at ]
             ELSE IF u.tag # "Ok" THEN [ tag |-> u.tag, msg |-> NoMsg, used |-> u.at ]
             ELSE IF k.val # FieldName(base, ver)
                  THEN [ tag |-> "Data", msg |-> NoMsg, used |-> u.at ]
             ELSE IF Len(u.val) > FieldLimbs(base)
                  THEN [ tag |-> "Data", msg |-> NoMsg, used |-> u.at ]
             ELSE IF Len(b) > u.at
                  THEN [ tag |-> "Syntax", msg |-> NoMsg, used |-> u.at + 1 ]
             ELSE [ tag |-> "Ok", used |-> u.at,
                    msg |-> Msg(base, ver, PadLimbs(u.val, FieldLimbs(base))) ]
    ELSE IF b[1] <= 27
    THEN LET u == ParseUint(b, 0)
         IN  IF u.tag # "Ok" THEN [ tag |-> u.tag, msg |-> NoMsg, used |-> u.at ]
             ELSE [ tag |-> "Data", msg |-> NoMsg, used |-> u.at ]
    ELSE [ tag |-> "Syntax", msg |-> NoMsg, used |-> 1 ]

(***************************************************************************)
(* Results and errors.                                                     *)
(***************************************************************************)
Error(kind, base, arg) == [ kind |-> kind, base |-> base, arg |-> arg ]
NoError == Error("none", "", 0)

\* Ok(variant(msg)); the variant is "bare" when the value is not wrapped.
Ok(variant, msg) == [ tag |-> "Ok",    variant |-> variant, msg |-> msg,   err |-> NoError ]
Err(e)           == [ tag |-> "Err",   variant |-> "",      msg |-> NoMsg, err |-> e ]
\* The call did not return: it unwound with a panic raised in `where`.
Panic(where)     == [ tag |-> "Panic", variant |-> where,   msg |-> NoMsg, err |-> NoError ]
NoResult         == [ tag |-> "None",  variant |-> "",      msg |-> NoMsg, err |-> NoError ]

\* One entry of the log of DataSource calls.
Call(fn, base, ver, arg) == [ fn |-> fn, base |-> base, ver |-> ver, arg |-> arg ]

\* impl From<io::Error>: MyGroupError for MyStream, Io(Some(e)) for CborData.
FromIoError(kind) ==
    IF kind = "MyStream" THEN Error("MyGroupError", "", 0) ELSE Error("Io", "", 0)

\* impl From<serde_cbor::Error>: MyGroupError for MyStream; for CborData the
\* error's category: Syntax and Data give Serializer, Eof gives Eof.
FromCborError(kind, tag) ==
    IF kind = "MyStream" THEN Error("MyGroupError", "", 0)
    ELSE IF tag = "Eof" THEN Error("Eof", "", 0)
    ELSE Error("Serializer", "", 0)

\* The three hooks of DataSource.  The default bodies panic; an overriding
\* source constructs an error value from the arguments.
unknown_message(hk, id) ==
    IF hk = "default" THEN Panic("unknown_message")
    ELSE Err(Error("unknown_message", "", id))
unknown_version(hk, base, ver) ==
    IF hk = "default" THEN Panic("unknown_version")
    ELSE Err(Error("unknown_version", base, ver))
\* A variant of unexpected_message that reports through unknown_message.
unexpected_message_AsUnknown(hk, base, id) ==
    IF hk = "default" THEN Panic("unknown_message")
    ELSE Err(Error("unknown_message", "", id))

unexpected_message(hk, base, id) ==
    IF hk = "default" THEN Panic("unexpected_message")
    ELSE Err(Error("unexpected_message", base, id))

\* The header shape of a source: BasicFixedHeader (the layout of TinyHeader)
\* for MyStream, BasicHeader for CborData.
HeaderShape(kind) == IF kind = "MyStream" THEN "Tiny" ELSE "Basic"

\* A variant of the limit that stops one byte short of msg_len.
TakeLimit_OffByOne(len, n) ==
    IF len[1] > 0 THEN n ELSE IF len[2] = 0 THEN 0 ELSE Min(len[2] - 1, n)

\* Read::take(header.msg_len): how many of `n` remaining bytes the subreader
\* can deliver.
TakeLimit(len, n) == IF len[1] > 0 THEN n ELSE Min(len[2], n)

\* A variant of the window in which every source hands the decoder the whole
\* reader.
PayloadWindow_WholeReader(kind, hdr, rest) == rest

\* DataSource::read_message::<<base>V<ver>>: the bytes the payload decoder
\* may read.  MyStream hands over the whole reader, CborData a subreader
\* limited to header.msg_len bytes.
PayloadWindow(kind, hdr, rest) ==
    IF kind = "MyStream" THEN rest
    ELSE Prefix(rest, TakeLimit(hdr.msg_len, Len(rest)))

(***************************************************************************)
(* derive(UpgradeLatest): upgrade_latest.                                  *)
(* The outcome of a step that reads the payload is                         *)
(* [res, used, eof, window, calls, convs]: the value returned, the bytes   *)
(* consumed, whether the decoder ran into the end of its input, the size   *)
(* of the window it could read, and the calls and conversions made.        *)
(***************************************************************************)
\* A variant of the match arm that returns the message as it was decoded.
quote_read_message_arm_NoUpgrade(kind, oc, base, version, hdr, rest) ==
    LET w == PayloadWindow(kind, hdr, rest)
        d == from_reader(w, base, version)
        called == << Call("read_message", base, version, 0) >>
    IN  IF d.tag # "Ok"
        THEN [ res |-> Err(FromCborError(kind, d.tag)), used |-> d.used,
               eof |-> d.tag = "Eof", window |-> Len(w),
               calls |-> called, convs |-> << >> ]
        ELSE [ res |-> Ok("bare", d.msg), used |-> d.used, eof |-> FALSE,
               window |-> Len(w), calls |-> called, convs |-> << >> ]

\* A variant of the match arm that reports a payload it cannot decode as an
\* unknown version.
quote_read_message_arm_AsUnknownVersion(kind, oc, base, version, hdr, rest) ==
    LET w == PayloadWindow(kind, hdr, rest)
        d == from_reader(w, base, version)
        c == FromVersion(base, version, struct_version(base), d.msg, oc)
        called == << Call("read_message", base, version, 0) >>
    IN  IF d.tag # "Ok"
        THEN [ res |-> Err(Error("unknown_version", base, version)), used |-> d.used,
               eof |-> d.tag = "Eof", window |-> Len(w),
               calls |-> called \o << Call("unknown_version", base, 0, version) >>,
               convs |-> << >> ]
        ELSE [ res |-> IF c.val = PanicMsg THEN Panic("from_version") ELSE Ok("bare", c.val),
               used |-> d.used, eof |-> FALSE, window |-> Len(w),
               calls |-> called, convs |-> c.trace ]

\* A variant of the match arm that looks at the payload to pick the schema:
\* it decodes as the first version of the family the bytes fit, and as the
\* header's version when they fit none.
quote_read_message_arm_Sniffs(kind, oc, base, version, hdr, rest) ==
    LET w == PayloadWindow(kind, hdr, rest)
        fits == { v \in 1 .. struct_version(base) : from_reader(w, base, v).tag = "Ok" }
        ver == IF fits = { } THEN version ELSE CHOOSE v \in fits : \A x \in fits : v <= x
        d == from_reader(w, base, ver)
        c == FromVersion(base, ver, struct_version(base), d.msg, oc)
        called == << Call("read_message", base, ver, 0) >>
    IN  IF d.tag # "Ok"
        THEN [ res |-> Err(FromCborError(kind, d.tag)), used |-> d.used,
               eof |-> d.tag = "Eof", window |-> Len(w),
               calls |-> called, convs |-> << >> ]
        ELSE [ res |-> IF c.val = PanicMsg THEN Panic("from_version") ELSE Ok("bare", c.val),
               used |-> d.used, eof |-> FALSE, window |-> Len(w),
               calls |-> called, convs |-> c.trace ]

\* A variant of the match arm that asks the source for the payload a second
\* time when the first decode fails.
quote_read_message_arm_Retries(kind, oc, base, version, hdr, rest) ==
    LET w == PayloadWindow(kind, hdr, rest)
        d == from_reader(w, base, version)
        c == FromVersion(base, version, struct_version(base), d.msg, oc)
        called == << Call("read_message", base, version, 0) >>
    IN  IF d.tag # "Ok"
        THEN [ res |-> Err(FromCborError(kind, d.tag)), used |-> d.used,
               eof |-> d.tag = "Eof", window |-> Len(w),
               calls |-> called \o called, convs |-> << >> ]
        ELSE [ res |-> IF c.val = PanicMsg THEN Panic("from_version") ELSE Ok("bare", c.val),
               used |-> d.used, eof |-> FALSE, window |-> Len(w),
               calls |-> called, convs |-> c.trace ]

\* One match arm: `<version> => { let msg = src.read_message::<V>()?;
\*                                Ok(<Target as FromVersion<V>>::from_version(msg)) }`
quote_read_message_arm(kind, oc, base, version, hdr, rest) ==
    LET w == PayloadWindow(kind, hdr, rest)
        d == from_reader(w, base, version)
        c == FromVersion(base, version, struct_version(base), d.msg, oc)
        called == << Call("read_message", base, version, 0) >>
    IN  IF d.tag # "Ok"
        THEN [ res |-> Err(FromCborError(kind, d.tag)), used |-> d.used,
               eof |-> d.tag = "Eof", window |-> Len(w),
               calls |-> called, convs |-> << >> ]
        ELSE [ res |-> IF c.val = PanicMsg THEN Panic("from_version") ELSE Ok("bare", c.val),
               used |-> d.used, eof |-> FALSE, window |-> Len(w),
               calls |-> called, convs |-> c.trace ]

\* all_versions = (1..=struct_version): the versions that get a match arm.
all_versions(base) == 1 .. struct_version(base)

\* A variant of upgrade_latest that reads a version above the latest as the
\* latest.
upgrade_latest_ClampsVersion(kind, hk, oc, base, hdr, rest) ==
    IF msg_ver(hdr) >= 1
    THEN quote_read_message_arm(kind, oc, base,
                                Min(msg_ver(hdr), struct_version(base)), hdr, rest)
    ELSE [ res |-> unknown_version(hk, base, msg_ver(hdr)), used |-> 0,
           eof |-> FALSE, window |-> 0,
           calls |-> << Call("unknown_version", base, 0, msg_ver(hdr)) >>,
           convs |-> << >> ]

\* `match ver { <arms> _ => Err(src.unknown_version::<Base>(ver)) }`
upgrade_latest(kind, hk, oc, base, hdr, rest) ==
    IF msg_ver(hdr) \in all_versions(base)
    THEN quote_read_message_arm(kind, oc, base, msg_ver(hdr), hdr, rest)
    ELSE [ res |-> unknown_version(hk, base, msg_ver(hdr)), used |-> 0,
           eof |-> FALSE, window |-> 0,
           calls |-> << Call("unknown_version", base, 0, msg_ver(hdr)) >>,
           convs |-> << >> ]

(***************************************************************************)
(* derive(GroupDeserialize): read_message, and the provided method         *)
(* expect_message.                                                         *)
(***************************************************************************)
\* A variant of the match that sends an id of no family to the first arm.
match_arms_DefaultFirst(variants, id) ==
    IF \E i \in 1 .. Len(variants) : MSG_ID(variants[i]) = id
    THEN variants[CHOOSE i \in 1 .. Len(variants) : MSG_ID(variants[i]) = id]
    ELSE variants[1]

\* A variant of to_match_arm that wraps every message in the first variant.
to_match_arm_FirstVariant(enum_variant, res) ==
    IF res.tag = "Ok" THEN Ok(MyGroup1[1], res.msg) ELSE res

\* A variant of expect_message's test that accepts the id of any family.
expect_matches_AnyKnown(T, hdr) == \E f \in Families : msg_id(hdr) = MSG_ID(f)

\* `match header.msg_id() { <T>::MSG_ID => ..., }`: the first variant whose
\* MSG_ID equals the id, or "" when the `_` arm is taken.
RECURSIVE match_arms(_, _)
match_arms(variants, id) ==
    IF variants = << >> THEN ""
    ELSE IF MSG_ID(Head(variants)) = id THEN Head(variants)
    ELSE match_arms(Tail(variants), id)

\* GroupVariant::to_match_arm: `let msg = T::upgrade_latest(..)?; Ok(Enum::Variant(msg))`
to_match_arm(enum_variant, res) ==
    IF res.tag = "Ok" THEN Ok(enum_variant, res.msg) ELSE res

\* expect_message: `if header.msg_id() == T::MSG_ID`
expect_matches(T, hdr) == msg_id(hdr) = MSG_ID(T)

\* The type parameter T of an expect_message call.
ExpectOps   == { "expect_Foo", "expect_Bar" }
ExpectedT(o) == IF o = "expect_Foo" THEN "Foo" ELSE "Bar"

\* Where a call ends, by what it produced.
EndState(res) ==
    CASE res.tag = "Ok"    -> "Done"
      [] res.tag = "Err"   -> "Failed"
      [] res.tag = "Panic" -> "Panicked"

(***************************************************************************)
(* The inputs of the model.                                                *)
(***************************************************************************)
\* u16 values near both ends of the range.
NearEnds16 == (0 .. Edge) \cup ((U16Max - Edge) .. U16Max)
\* u32 values near both ends of the range.
NearEnds32 == { U32Of(0, k) : k \in 0 .. Edge } \cup
              { U32Of(U16Max, U16Max - k) : k \in 0 .. Edge }

\* Message ids in headers: the ids of the group, and ids of no family.
IdProbes  == { MSG_ID(f) : f \in Families } \cup { 0, U16Max }
\* Versions in headers: 0, the declared ones, later ones, the largest u16.
VerProbes == (0 .. MaxVer) \cup { U16Max }

\* Field values of Foo: near the ends of u32, the test's 1234, a one-byte
\* value above 23, and a value that overflows in the second step only.
FooVals == NearEnds32 \cup { U32Of(0, 1234), U32Of(0, 200), U32Of(U16Max, U16Max - 10) }
\* Field values of Bar: a small one and one that needs all 64 bits.
BarVals == { << 0, 0, 0, 7 >>, << 1, 0, 0, 0 >> }

Messages ==
    { Msg("Foo", v, x) : v \in 1 .. 3, x \in FooVals } \cup
    { Msg("Bar", 1, x) : x \in BarVals }

\* Payload bytes that are no complete message: nothing, a break byte, a bare
\* integer, and a message cut short.
Garbage == { << >>, << 255 >>, << 5 >>, Prefix(to_writer(Msg("Foo", 1, U32Of(0, 1234))), 6) }

Payloads == { to_writer(m) : m \in Messages } \cup Garbage

EncodeHeader(h) == SerializeInto(h, VecWriter).w.buf

\* The msg_len values a BasicHeader may carry for a payload: its length, a
\* zero that does not match it, and a length the payload falls short of.
LenChoices(payload) == { U32Of(0, Len(payload)), U32Zero, U32Of(0, Len(payload) + 1) }

HeadersFor(kind, payload) ==
    IF kind = "MyStream"
    THEN { TinyHeader_new(id, ver) : id \in IdProbes, ver \in VerProbes }
    ELSE { BasicHeader_new(id, ver, len) :
               id \in IdProbes, ver \in VerProbes, len \in LenChoices(payload) }

\* What follows a message in the reader: nothing, or the next message (a
\* BarV1 under its header).
Following(kind) ==
    LET p == to_writer(Msg("Bar", 1, << 0, 0, 0, 7 >>))
        h == IF kind = "MyStream" THEN TinyHeader_new(MSG_ID("Bar"), 1)
             ELSE BasicHeader_new(MSG_ID("Bar"), 1, U32Of(0, Len(p)))
    IN  { << >>, EncodeHeader(h) \o p }

\* A header and a payload, alone or followed by the next message; or a
\* header cut short.
Streams(kind) ==
    UNION { { EncodeHeader(h) \o p \o f : h \in HeadersFor(kind, p), f \in Following(kind) } :
            p \in Payloads }
    \cup { Prefix(EncodeHeader(h), n) :
               h \in HeadersFor(kind, << >>), n \in 0 .. (WireSize(HeaderShape(kind)) - 1) }

\* One stream for each path a call can take, as (msg_id, msg_ver, payload):
\* the test's FooV1, a FooV1 whose conversion overflows, a FooV2, a FooV3, a
\* Bar, versions below and above the declared ones, an id of no family, and
\* payloads that do not decode; a header cut short; and nothing at all.
PathCases ==
    { << MSG_ID("Foo"), 1, to_writer(Msg("Foo", 1, U32Of(0, 1234))) >>,
      << MSG_ID("Foo"), 1, to_writer(Msg("Foo", 1, U32Of(U16Max, U16Max))) >>,
      << MSG_ID("Foo"), 2, to_writer(Msg("Foo", 2, U32Of(0, 1234))) >>,
      << MSG_ID("Foo"), 3, to_writer(Msg("Foo", 3, U32Of(0, 1234))) >>,
      << MSG_ID("Foo"), 1, << 255 >> >>,
      << MSG_ID("Foo"), 2, << >> >>,
      << MSG_ID("Foo"), 0, to_writer(Msg("Foo", 1, U32Of(0, 1234))) >>,
      << MSG_ID("Foo"), struct_version("Foo") + 1, to_writer(Msg("Foo", 3, U32Of(0, 1234))) >>,
      << MSG_ID("Bar"), 1, to_writer(Msg("Bar", 1, << 0, 0, 0, 7 >>)) >>,
      << MSG_ID("Bar"), struct_version("Bar") + 1, to_writer(Msg("Bar", 1, << 0, 0, 0, 7 >>)) >>,
      << 0, 1, to_writer(Msg("Bar", 1, << 0, 0, 0, 7 >>)) >> }

PathStreams(kind) ==
    { EncodeHeader(IF kind = "MyStream" THEN TinyHeader_new(c[1], c[2])
                   ELSE BasicHeader_new(c[1], c[2], U32Of(0, Len(c[3])))) \o c[3] :
          c \in PathCases }
    \cup { << >>, Prefix(EncodeHeader(TinyHeader_new(MSG_ID("Foo"), 1)), 3) }

\* Header values for the codec on its own.
CodecHeaders ==
    { TinyHeader_new(id, ver)  : id \in NearEnds16 \cup IdProbes, ver \in VerProbes }
    \cup { FixedHeader_new(id, ver) : id \in NearEnds16 \cup IdProbes, ver \in VerProbes }
    \cup { BasicHeader_new(id, ver, len) :
              id \in NearEnds16 \cup IdProbes, ver \in VerProbes,
              len \in NearEnds32 \cup { U32Of(1, 0) } }

(***************************************************************************)
(* A read call on a DataSource, step by step.                              *)
(***************************************************************************)
IdleCodec ==
    /\ c_hdr = NoHeader
    /\ c_pc = "off"
    /\ c_out = [ tag |-> "none", bytes |-> << >> ]
    /\ c_dec = [ tag |-> "none", hdr |-> NoHeader, avail |-> 0, from |-> "" ]

\* No write_message call is in progress.
IdleSink ==
    /\ w_msg = NoMsg
    /\ w_pc = "off"
    /\ w_buf = << >>
    /\ w_hdr = NoHeader
    /\ w_inner = VecWriter
    /\ w_start = 0
    /\ w_log = << >>
    /\ w_res = NoResult
    /\ w_back = [ hk |-> "default", oc |-> FALSE, res |-> NoResult ]

\* No conversion is in progress.
IdleConv ==
    /\ cv_oc = FALSE
    /\ cv_from = NoMsg
    /\ cv_val = NoMsg
    /\ cv_steps = << >>

\* No caller exists.
IdleCallers ==
    /\ build = [ hooks |-> "default", oc |-> FALSE ]
    /\ sources = << >>
    /\ running = << >>
    /\ returned = << >>

\* No derive is in progress.
IdleName ==
    /\ nm_name = << >>
    /\ nm_info = [ tag |-> "none", base |-> << >>, version |-> 0 ]
    /\ nm_latest = [ tag |-> "none", version |-> 0, arms |-> { }, hops |-> { } ]

Init ==
    /\ src_kind \in { "MyStream", "CborData" }
    /\ hooks \in { "default", "overridden" }
    /\ overflow_checks \in BOOLEAN
    /\ stream \in Streams(src_kind)
    /\ pos = 0
    /\ op = "none"
    /\ pc = "Idle"
    /\ header = NoHeader
    /\ target = ""
    /\ result = NoResult
    /\ calls = << >>
    /\ convs = << >>
    /\ IdleCodec
    /\ IdleSink
    /\ IdleConv
    /\ IdleName
    /\ IdleCallers

\* The caller invokes <Group as GroupDeserialize>::read_message(src).
CallReadMessage ==
    /\ pc = "Idle"
    /\ op' = "read_message"
    /\ pc' = "AwaitHeader"
    /\ UNCHANGED << src_kind, hooks, overflow_checks, stream, pos, header, target,
                    result, calls, convs >>
    /\ UNCHANGED << codecVars, sinkVars, convVars, nameVars, callerVars >>

\* The caller invokes <Group as GroupDeserialize>::expect_message::<_, T>(src).
CallExpectMessage(o) ==
    /\ pc = "Idle"
    /\ op' = o
    /\ pc' = "AwaitHeader"
    /\ UNCHANGED << src_kind, hooks, overflow_checks, stream, pos, header, target,
                    result, calls, convs >>
    /\ UNCHANGED << codecVars, sinkVars, convVars, nameVars, callerVars >>

\* A variant of the header step that goes on with a zeroed header when the
\* read fails.
ReadHeader_DefaultsHeader ==
    /\ pc = "AwaitHeader"
    /\ LET r == DeserializeFrom(HeaderShape(src_kind), stream, pos)
       IN  /\ calls' = Append(calls, Call("read_header", "", 0, 0))
           /\ pc' = "Dispatch"
           /\ UNCHANGED result
           /\ IF r.tag = "Ok"
              THEN /\ header' = r.hdr
                   /\ pos' = r.at
              ELSE /\ header' = IF src_kind = "MyStream" THEN TinyHeader_new(0, 0)
                                ELSE BasicHeader_new(0, 0, U32Zero)
                   /\ pos' \in { r.at, Len(stream) }
    /\ UNCHANGED << src_kind, hooks, overflow_checks, stream, op, target, convs >>
    /\ UNCHANGED << codecVars, sinkVars, convVars, nameVars, callerVars >>

\* A variant of the header step that tries once more when the first read
\* fails.
ReadHeader_RetriesOnce ==
    /\ pc = "AwaitHeader"
    /\ LET r == DeserializeFrom(HeaderShape(src_kind), stream, pos)
       IN  /\ calls' = Append(calls, Call("read_header", "", 0, 0))
           /\ IF r.tag = "Ok"
              THEN /\ header' = r.hdr
                   /\ pos' = r.at
                   /\ pc' = "Dispatch"
                   /\ UNCHANGED result
              ELSE IF calls = << >>
              THEN /\ pos' \in { r.at, Len(stream) }
                   /\ pc' = "AwaitHeader"
                   /\ UNCHANGED << header, result >>
              ELSE /\ result' = Err(FromIoError(src_kind))
                   /\ pos' \in { r.at, Len(stream) }
                   /\ pc' = "Failed"
                   /\ UNCHANGED header
    /\ UNCHANGED << src_kind, hooks, overflow_checks, stream, op, target, convs >>
    /\ UNCHANGED << codecVars, sinkVars, convVars, nameVars, callerVars >>

\* `let header = src.read_header()?;`
\* When read_exact runs out of bytes, how much of the reader it consumed
\* depends on the reader: what was read so far, or everything.
ReadHeader ==
    /\ pc = "AwaitHeader"
    /\ LET r == DeserializeFrom(HeaderShape(src_kind), stream, pos)
       IN  /\ calls' = Append(calls, Call("read_header", "", 0, 0))
           /\ IF r.tag = "Ok"
              THEN /\ header' = r.hdr
                   /\ pos' = r.at
                   /\ pc' = "Dispatch"
                   /\ UNCHANGED result
              ELSE /\ result' = Err(FromIoError(src_kind))
                   /\ pos' \in { r.at, Len(stream) }
                   /\ pc' = "Failed"
                   /\ UNCHANGED header
    /\ UNCHANGED << src_kind, hooks, overflow_checks, stream, op, target, convs >>
    /\ UNCHANGED << codecVars, sinkVars, convVars, nameVars, callerVars >>

\* read_message: `match header.msg_id() { .. _ => Err(src.unknown_message(id)) }`
MatchMsgId ==
    /\ pc = "Dispatch"
    /\ op = "read_message"
    /\ LET t == match_arms(MyGroup1, msg_id(header))
       IN  IF t # ""
           THEN /\ target' = t
                /\ pc' = "ResolvePayload"
                /\ UNCHANGED << result, calls >>
           ELSE /\ result' = unknown_message(hooks, msg_id(header))
                /\ calls' = Append(calls, Call("unknown_message", "", 0, msg_id(header)))
                /\ pc' = EndState(result')
                /\ UNCHANGED target
    /\ UNCHANGED << src_kind, hooks, overflow_checks, stream, pos, op, header, convs >>
    /\ UNCHANGED << codecVars, sinkVars, convVars, nameVars, callerVars >>

\* expect_message: `if header.msg_id() == T::MSG_ID { .. } else
\*                      { Err(src.unexpected_message::<T>(header.msg_id())) }`
CheckMsgId ==
    /\ pc = "Dispatch"
    /\ op \in ExpectOps
    /\ IF expect_matches(ExpectedT(op), header)
       THEN /\ target' = ExpectedT(op)
            /\ pc' = "ResolvePayload"
            /\ UNCHANGED << result, calls >>
       ELSE /\ result' = unexpected_message(hooks, ExpectedT(op), msg_id(header))
            /\ calls' = Append(calls, Call("unexpected_message", ExpectedT(op), 0,
                                           msg_id(header)))
            /\ pc' = EndState(result')
            /\ UNCHANGED target
    /\ UNCHANGED << src_kind, hooks, overflow_checks, stream, pos, op, header, convs >>
    /\ UNCHANGED << codecVars, sinkVars, convVars, nameVars, callerVars >>

\* `T::upgrade_latest(src, header.msg_ver())`, wrapped in the enum variant
\* by read_message and returned as it is by expect_message.
\* A decoder that ran into the end of its input has consumed what it parsed,
\* or everything its window held.
UpgradeLatest ==
    /\ pc = "ResolvePayload"
    /\ LET u == upgrade_latest(src_kind, hooks, overflow_checks, target, header,
                               Drop(stream, pos))
       IN  /\ result' = IF op = "read_message" THEN to_match_arm(target, u.res) ELSE u.res
           /\ calls' = calls \o u.calls
           /\ convs' = convs \o u.convs
           /\ pos' \in IF u.eof THEN { pos + u.used, pos + u.window } ELSE { pos + u.used }
           /\ pc' = EndState(result')
    /\ UNCHANGED << src_kind, hooks, overflow_checks, stream, op, header, target >>
    /\ UNCHANGED << codecVars, sinkVars, convVars, nameVars, callerVars >>

Next ==
    \/ CallReadMessage
    \/ \E o \in ExpectOps : CallExpectMessage(o)
    \/ ReadHeader
    \/ MatchMsgId
    \/ CheckMsgId
    \/ UpgradeLatest

Spec == Init /\ [][Next]_vars

\* The state after construction, with one of the streams of PathStreams.
FairInit ==
    /\ src_kind \in { "MyStream", "CborData" }
    /\ hooks \in { "default", "overridden" }
    /\ overflow_checks \in BOOLEAN
    /\ stream \in PathStreams(src_kind)
    /\ pos = 0
    /\ op = "none"
    /\ pc = "Idle"
    /\ header = NoHeader
    /\ target = ""
    /\ result = NoResult
    /\ calls = << >>
    /\ convs = << >>
    /\ IdleCodec
    /\ IdleSink
    /\ IdleConv
    /\ IdleName
    /\ IdleCallers

\* upgrade_latest on the payload of each stream of PathStreams, for every
\* source, hook policy and build, worked out once.
PathUpgrades ==
    [ a \in { << kind, hk, oc, match_arms(MyGroup1, c[1]),
                 IF kind = "MyStream" THEN TinyHeader_new(c[1], c[2])
                 ELSE BasicHeader_new(c[1], c[2], U32Of(0, Len(c[3]))),
                 c[3] >> :
                   kind \in { "MyStream", "CborData" }, hk \in { "default", "overridden" },
                   oc \in BOOLEAN, c \in { x \in PathCases : match_arms(MyGroup1, x[1]) # "" } }
      |-> upgrade_latest(a[1], a[2], a[3], a[4], a[5], a[6]) ]

\* The step UpgradeLatest, with the outcome of upgrade_latest taken from
\* PathUpgrades.
UpgradeLatestOnPath ==
    /\ pc = "ResolvePayload"
    /\ LET u == PathUpgrades[<< src_kind, hooks, overflow_checks, target, header,
                                Drop(stream, pos) >>]
       IN  /\ result' = IF op = "read_message" THEN to_match_arm(target, u.res) ELSE u.res
           /\ calls' = calls \o u.calls
           /\ convs' = convs \o u.convs
           /\ pos' \in IF u.eof THEN { pos + u.used, pos + u.window } ELSE { pos + u.used }
           /\ pc' = EndState(result')
    /\ UNCHANGED << src_kind, hooks, overflow_checks, stream, op, header, target >>
    /\ UNCHANGED << codecVars, sinkVars, convVars, nameVars, callerVars >>

FairNext ==
    \/ CallReadMessage
    \/ \E o \in ExpectOps : CallExpectMessage(o)
    \/ ReadHeader
    \/ MatchMsgId
    \/ CheckMsgId
    \/ UpgradeLatestOnPath

\* A read call is one synchronous function call on the caller's thread: once
\* entered, each of its steps is taken as long as one is left to take.
FairSpec == FairInit /\ [][FairNext]_vars /\ WF_vars(FairNext)

(***************************************************************************)
(* The header codec on its own: a header value is encoded, into a stream   *)
(* or into an array, and decoded again, from the stream (or a prefix of    *)
(* it) or from the array.                                                  *)
(***************************************************************************)
IdleRead ==
    /\ src_kind = "MyStream"
    /\ hooks = "default"
    /\ overflow_checks = FALSE
    /\ stream = << >>
    /\ pos = 0
    /\ op = "none"
    /\ pc = "off"
    /\ header = NoHeader
    /\ target = ""
    /\ result = NoResult
    /\ calls = << >>
    /\ convs = << >>

CodecInit ==
    /\ c_hdr \in CodecHeaders
    /\ c_pc = "new"
    /\ c_out = [ tag |-> "none", bytes |-> << >> ]
    /\ c_dec = [ tag |-> "none", hdr |-> NoHeader, avail |-> 0, from |-> "" ]
    /\ IdleRead
    /\ IdleSink
    /\ IdleConv
    /\ IdleName
    /\ IdleCallers

\* header.serialize_into(&mut w) on an empty Vec.
CodecSerializeInto ==
    /\ c_pc = "new"
    /\ LET r == SerializeInto(c_hdr, VecWriter)
       IN  c_out' = [ tag |-> IF r.ok THEN "Ok" ELSE "Err", bytes |-> r.w.buf ]
    /\ c_pc' = "written"
    /\ UNCHANGED << c_hdr, c_dec >>
    /\ UNCHANGED << readVars, sinkVars, convVars, nameVars, callerVars >>

\* header.serialize()
CodecSerialize ==
    /\ c_pc = "new"
    /\ c_out' = Serialize(c_hdr)
    /\ c_pc' = "array"
    /\ UNCHANGED << c_hdr, c_dec >>
    /\ UNCHANGED << readVars, sinkVars, convVars, nameVars, callerVars >>

\* <Header>::deserialize_from(&mut r) on a reader holding the first n bytes
\* of the encoding.
CodecDeserializeFrom(n) ==
    /\ c_pc = "written"
    /\ c_out.tag = "Ok"
    /\ LET r == DeserializeFrom(c_hdr.shape, Prefix(c_out.bytes, n), 0)
       IN  c_dec' = [ tag |-> r.tag, hdr |-> r.hdr, avail |-> n, from |-> "written" ]
    /\ c_pc' = "read"
    /\ UNCHANGED << c_hdr, c_out >>
    /\ UNCHANGED << readVars, sinkVars, convVars, nameVars, callerVars >>

\* <Header>::deserialize(buf): buf is the array serialize returned, or the
\* leading bytes of the stream encoding that fill the array type.
CodecDeserialize ==
    /\ c_pc \in { "array", "written" }
    /\ c_out.tag = "Ok"
    /\ Len(c_out.bytes) >= ArrayLen(c_hdr.shape)
    /\ LET r == Deserialize(c_hdr.shape, Prefix(c_out.bytes, ArrayLen(c_hdr.shape)))
       IN  c_dec' = [ tag |-> r.tag, hdr |-> r.hdr, avail |-> ArrayLen(c_hdr.shape),
                      from |-> c_pc ]
    /\ c_pc' = "fromarray"
    /\ UNCHANGED << c_hdr, c_out >>
    /\ UNCHANGED << readVars, sinkVars, convVars, nameVars, callerVars >>

CodecNext ==
    \/ CodecSerializeInto
    \/ CodecSerialize
    \/ \E n \in 0 .. Len(c_out.bytes) : CodecDeserializeFrom(n)
    \/ CodecDeserialize

CodecSpec == CodecInit /\ [][CodecNext]_vars

(***************************************************************************)
(* The two read operations as functions of the source and its bytes: what  *)
(* a call returns when the reader holds `st`.                              *)
(***************************************************************************)
\* <MyGroup1 as GroupDeserialize>::read_message(src)
read_message(kind, hk, oc, st) ==
    LET r == DeserializeFrom(HeaderShape(kind), st, 0)
        t == match_arms(MyGroup1, msg_id(r.hdr))
    IN  IF r.tag # "Ok" THEN Err(FromIoError(kind))
        ELSE IF t = "" THEN unknown_message(hk, msg_id(r.hdr))
        ELSE to_match_arm(t, upgrade_latest(kind, hk, oc, t, r.hdr, Drop(st, r.at)).res)

\* <MyGroup1 as GroupDeserialize>::expect_message::<_, T>(src)
expect_message(T, kind, hk, oc, st) ==
    LET r == DeserializeFrom(HeaderShape(kind), st, 0)
    IN  IF r.tag # "Ok" THEN Err(FromIoError(kind))
        ELSE IF expect_matches(T, r.hdr)
        THEN upgrade_latest(kind, hk, oc, T, r.hdr, Drop(st, r.at)).res
        ELSE unexpected_message(hk, T, msg_id(r.hdr))

(***************************************************************************)
(* CborData as a sink: one write_message call, step by step, and a read of *)
(* what it wrote.                                                          *)
(***************************************************************************)
\* A variant of the length measured that counts the header's bytes too.
MsgLen_WithHeader(msg_buf) == U32Of(0, Len(msg_buf) + WireSize("Basic"))

\* `let msg_len: u32 = msg_buf.len().try_into().expect("usize to u32")`
MsgLen(msg_buf) == U32Of(0, Len(msg_buf))

\* The writers a sink may wrap: a Vec, or a slice with room for `room` more
\* bytes than it holds.
SinkRooms == { 0, 6, 8, 12, 16 }
SinkWriters(held) ==
    { [ buf |-> held, cap |-> Unbounded ] } \cup
    { [ buf |-> held, cap |-> Len(held) + room ] : room \in SinkRooms }

\* One entry of the log of a write_message call.
Did(what, bytes) == [ what |-> what, bytes |-> bytes ]

\* The unit value a successful write returns.
OkUnit == Ok("unit", NoMsg)

\* Values of a version type whose Serialize impl reports an error at the
\* field (serde::ser::Error::custom): write_message takes any T: Serialize.
\* The empty value stands for the field that does not serialize.
Unserializable == { Msg("Foo", 3, << >>), Msg("Bar", 1, << >>) }

\* `serde_cbor::to_writer(&mut cursor, msg)`: [ok, bytes], the bytes the
\* serializer has written to its writer when it returns.  It writes as it
\* goes: when the field fails, the map header and the key are written.
to_writer_into(msg) ==
    LET name == FieldName(msg.base, msg.ver)
    IN  IF msg \in Unserializable
        THEN [ ok |-> FALSE, bytes |-> << 160 + 1, 96 + Len(name) >> \o name ]
        ELSE [ ok |-> TRUE, bytes |-> to_writer(msg) ]

SinkInit ==
    /\ w_msg \in Messages \cup Unserializable
    /\ w_pc = "new"
    /\ w_buf = << >>
    /\ w_hdr = NoHeader
    /\ \E held \in Following("CborData") :
           /\ w_inner \in SinkWriters(held)
           /\ w_start = Len(held)
    /\ w_log = << >>
    /\ w_res = NoResult
    /\ w_back = [ hk |-> "default", oc |-> FALSE, res |-> NoResult ]
    /\ IdleRead
    /\ IdleCodec
    /\ IdleConv
    /\ IdleName
    /\ IdleCallers

\* A variant of the first step that serializes the payload straight into the
\* sink's writer and keeps a copy to measure.
SerializePayload_IntoSink ==
    /\ w_pc = "new"
    /\ LET r == to_writer_into(w_msg)
           o == WriteAll(w_inner, r.bytes)
       IN  /\ w_buf' = r.bytes
           /\ w_inner' = o.w
           /\ w_log' = Append(w_log, Did("serialize", r.bytes))
           /\ IF r.ok
              THEN /\ w_hdr' = BasicHeader_for_msg(w_msg, MsgLen(r.bytes))
                   /\ w_pc' = "header"
                   /\ UNCHANGED w_res
              ELSE /\ w_pc' = "unserialized"
                   /\ w_res' = Err(FromCborError("CborData", "Data"))
                   /\ UNCHANGED w_hdr
    /\ UNCHANGED << w_msg, w_start, w_back >>
    /\ UNCHANGED << readVars, codecVars, convVars, nameVars, callerVars >>

\* write_message, up to the header value: the payload is serialized into a
\* Vec of its own, measured, and the header is built for it.  When the
\* serializer fails, `?` returns its error as a CborDataError.
SerializePayload ==
    /\ w_pc = "new"
    /\ LET r == to_writer_into(w_msg)
       IN  /\ w_buf' = r.bytes
           /\ w_log' = Append(w_log, Did("serialize", r.bytes))
           /\ IF r.ok
              THEN /\ w_hdr' = BasicHeader_for_msg(w_msg, MsgLen(r.bytes))
                   /\ w_pc' = "header"
                   /\ UNCHANGED w_res
              ELSE /\ w_pc' = "unserialized"
                   /\ w_res' = Err(FromCborError("CborData", "Data"))
                   /\ UNCHANGED w_hdr
    /\ UNCHANGED << w_msg, w_inner, w_start, w_back >>
    /\ UNCHANGED << readVars, codecVars, convVars, nameVars, callerVars >>

\* `header.serialize_into(&mut self.inner)?;`
WriteHeader ==
    /\ w_pc = "header"
    /\ LET r == BasicHeader_serialize_into(w_hdr, w_inner)
       IN  /\ w_inner' = r.w
           /\ w_log' = Append(w_log, Did("header", Drop(r.w.buf, Len(w_inner.buf))))
           /\ IF r.ok
              THEN w_pc' = "payload" /\ UNCHANGED w_res
              ELSE w_pc' = "failed" /\ w_res' = Err(FromIoError("CborData"))
    /\ UNCHANGED << w_msg, w_buf, w_hdr, w_start, w_back >>
    /\ UNCHANGED << readVars, codecVars, convVars, nameVars, callerVars >>

\* `self.inner.write_all(&msg_buf)?; Ok(())`
WritePayload ==
    /\ w_pc = "payload"
    /\ LET r == WriteAll(w_inner, w_buf)
       IN  /\ w_inner' = r.w
           /\ w_log' = Append(w_log, Did("payload", Drop(r.w.buf, Len(w_inner.buf))))
           /\ IF r.ok
              THEN w_pc' = "done" /\ w_res' = OkUnit
              ELSE w_pc' = "failed" /\ w_res' = Err(FromIoError("CborData"))
    /\ UNCHANGED << w_msg, w_buf, w_hdr, w_start, w_back >>
    /\ UNCHANGED << readVars, codecVars, convVars, nameVars, callerVars >>

\* <MyGroup1 as GroupDeserialize>::read_message on a CborData over the bytes
\* the call wrote.
ReadBack(hk, oc) ==
    /\ w_pc = "done"
    /\ w_back' = [ hk |-> hk, oc |-> oc,
                   res |-> read_message("CborData", hk, oc, Drop(w_inner.buf, w_start)) ]
    /\ w_pc' = "readback"
    /\ UNCHANGED << w_msg, w_buf, w_hdr, w_inner, w_start, w_log, w_res >>
    /\ UNCHANGED << readVars, codecVars, convVars, nameVars, callerVars >>

\* <Header>::for_msg(&msg) on its own, for each header type.
ForMsg(shape) ==
    /\ w_pc = "new"
    /\ \/ shape = "Tiny"  /\ w_hdr' = TinyHeader_for_msg(w_msg)
       \/ shape = "Fixed" /\ w_hdr' = FixedHeader_for_msg(w_msg)
       \/ shape = "Basic" /\ \E len \in NearEnds32 : w_hdr' = BasicHeader_for_msg(w_msg, len)
    /\ w_pc' = "built"
    /\ UNCHANGED << w_msg, w_buf, w_inner, w_start, w_log, w_res, w_back >>
    /\ UNCHANGED << readVars, codecVars, convVars, nameVars, callerVars >>

SinkNext ==
    \/ SerializePayload
    \/ WriteHeader
    \/ WritePayload
    \/ \E hk \in { "default", "overridden" }, oc \in BOOLEAN : ReadBack(hk, oc)
    \/ \E shape \in { "Tiny", "Fixed", "Basic" } : ForMsg(shape)

SinkSpec == SinkInit /\ [][SinkNext]_vars

(***************************************************************************)
(* Conversions on their own: a value of some version of a family is taken  *)
(* to a later version by from_version, one call after another, until it is *)
(* of the latest version.                                                  *)
(***************************************************************************)
\* u64 values near both ends of the range, and the 42 of test_adapter.
XVals == { << 0, 0, 0, k >> : k \in 0 .. Edge } \cup
         { << U16Max, U16Max, U16Max, U16Max - k >> : k \in 0 .. Edge } \cup
         { << 0, 0, 0, 42 >> }

MyStructValues ==
    { Msg("MyStruct", 1, x) : x \in XVals } \cup
    { Msg("MyStruct", 2, x \o << y >>) : x \in XVals, y \in { 0, 1, 255 } } \cup
    { Msg("MyStruct", 3, x \o y) : x \in XVals, y \in { << 0, 0, 0, 0 >>, << 0, 0, 0, 255 >> } }

ConvInit ==
    /\ cv_oc \in BOOLEAN
    /\ cv_from \in { m \in Messages : m.base = "Foo" } \cup MyStructValues
    /\ cv_val = cv_from
    /\ cv_steps = << >>
    /\ IdleRead
    /\ IdleCodec
    /\ IdleSink
    /\ IdleName
    /\ IdleCallers

\* The two ways a conversion is called.
ConvCalls == { "from_version", "into_version" }

\* <base>V<to>::from_version(value), or value.into_version() with the target
\* type <base>V<to>, for the value's own version or a later one.
Convert(how, to) ==
    /\ cv_val # PanicMsg
    /\ Len(cv_steps) < MaxConvCalls
    /\ cv_val.ver <= to
    /\ to <= struct_version(cv_val.base)
    /\ cv_val' = IF how = "into_version"
                  THEN into_version(cv_val.base, cv_val.ver, to, cv_val, cv_oc).val
                  ELSE FromVersion(cv_val.base, cv_val.ver, to, cv_val, cv_oc).val
    /\ cv_steps' = Append(cv_steps, Conv(how, cv_val.base, cv_val.ver, to))
    /\ UNCHANGED << cv_oc, cv_from >>
    /\ UNCHANGED << readVars, codecVars, sinkVars, nameVars, callerVars >>

ConvNext == \E how \in ConvCalls, to \in 1 .. MaxVer : Convert(how, to)

ConvSpec == ConvInit /\ [][ConvNext]_vars

(***************************************************************************)
(* derive(Versioned): the struct's name is split into base and version.    *)
(* A name is a sequence of characters.                                     *)
(***************************************************************************)
Digits == << "0", "1", "2", "3", "4", "5", "6", "7", "8", "9" >>
IsDigit(c) == \E d \in 1 .. Len(Digits) : Digits[d] = c
DigitValue(c) == (CHOOSE d \in 1 .. Len(Digits) : Digits[d] = c) - 1

\* A variant of the split that is taken at the first occurrence.
rsplit_once_First(str, ch) ==
    IF \A i \in 1 .. Len(str) : str[i] # ch
    THEN [ found |-> FALSE, left |-> << >>, right |-> << >> ]
    ELSE LET k == CHOOSE i \in 1 .. Len(str) :
                      str[i] = ch /\ \A j \in 1 .. (i - 1) : str[j] # ch
         IN  [ found |-> TRUE, left |-> SubSeq(str, 1, k - 1),
               right |-> SubSeq(str, k + 1, Len(str)) ]

\* str::rsplit_once(ch): the parts before and after the last occurrence.
rsplit_once(str, ch) ==
    IF \A i \in 1 .. Len(str) : str[i] # ch
    THEN [ found |-> FALSE, left |-> << >>, right |-> << >> ]
    ELSE LET k == CHOOSE i \in 1 .. Len(str) :
                      str[i] = ch /\ \A j \in (i + 1) .. Len(str) : str[j] # ch
         IN  [ found |-> TRUE, left |-> SubSeq(str, 1, k - 1),
               right |-> SubSeq(str, k + 1, Len(str)) ]

\* <u16 as FromStr>::from_str on the characters of an identifier: empty and
\* non-digit input fail, and so does a value that leaves u16; digits are
\* accumulated from the left with a checked multiply and add.
RECURSIVE parse_digits(_, _)
parse_digits(str, acc) ==
    IF str = << >> THEN [ ok |-> TRUE, val |-> acc ]
    ELSE IF ~IsDigit(Head(str)) THEN [ ok |-> FALSE, val |-> 0 ]
    ELSE IF acc * 10 + DigitValue(Head(str)) > U16Max THEN [ ok |-> FALSE, val |-> 0 ]
    ELSE parse_digits(Tail(str), acc * 10 + DigitValue(Head(str)))

parse_u16(str) ==
    IF str = << >> THEN [ ok |-> FALSE, val |-> 0 ] ELSE parse_digits(str, 0)

\* NameInfo::from_name: [tag, base, version]; the tag is "Panic" where the
\* macro panics, which the compiler reports as an error of the derive.
NameInfo_from_name(ident) ==
    LET parts == rsplit_once(ident, "V")
        version == parse_u16(parts.right)
        failed == [ tag |-> "Panic", base |-> << >>, version |-> 0 ]
    IN  IF ~parts.found THEN failed
        ELSE IF Len(parts.left) = 0 THEN failed
        ELSE IF ~version.ok THEN failed
        ELSE [ tag |-> "Ok", base |-> parts.left, version |-> version.val ]

\* derive_versioned: `const VER: u16 = #struct_version; type Base = #struct_base;`
derive_versioned(ident) == NameInfo_from_name(ident)

\* derive_upgrade_latest: [tag, version, arms, hops]: the struct's version,
\* the versions that get a match arm in upgrade_latest (all_versions), and
\* the `lo` of every impl FromVersion<<Base>V<lo>> for <Base>V<version> that
\* is generated.  The tag is "Panic" where the macro panics.
\* On a version 0, `struct_version - 1` leaves u16: a panic with overflow
\* checks; without them it wraps to 65535, the range is 1..65535, and for
\* each `lo` of it `hi - lo` wraps to a number that is not below 2.
derive_upgrade_latest(ident, oc) ==
    LET info == NameInfo_from_name(ident)
        failed == [ tag |-> "Panic", version |-> 0, arms |-> { }, hops |-> { } ]
    IN  IF info.tag = "Panic" THEN failed
        ELSE IF info.version = 0
        THEN IF oc THEN failed
             ELSE [ tag |-> "Ok", version |-> 0, arms |-> { }, hops |-> 1 .. (U16Max - 1) ]
        ELSE [ tag |-> "Ok", version |-> info.version,
               arms |-> 1 .. info.version,
               hops |-> { lo \in all_hops(info.version) : ~(info.version - lo < 2) } ]

\* The characters names are made of here.
NameChars == { "B", "V", "v", "2", "0" }

RECURSIVE SeqsOf(_, _)
SeqsOf(chars, n) ==
    IF n = 0 THEN { << >> }
    ELSE { << c >> \o t : c \in chars, t \in SeqsOf(chars, n - 1) }

\* Struct names: every identifier over NameChars of up to MaxNameLen
\* characters, and the names of the test suites with versions at the ends of
\* u16.
Names ==
    { n \in UNION { SeqsOf(NameChars, k) : k \in 1 .. MaxNameLen } : ~IsDigit(n[1]) }
    \cup { << "B", "a", "s", "i", "c", "V", "1" >>,
           << "B", "a", "s", "i", "c", "V", "2" >>,
           << "F", "o", "o", "V", "3" >>,
           << "B", "V", "6", "5", "5", "3", "5" >>,
           << "B", "V", "6", "5", "5", "3", "6" >>,
           << "B", "V", "0", "0", "0", "0", "1" >>,
           << "B", "V", "9", "9", "9", "9", "9" >> }

NameInit ==
    /\ nm_name \in Names
    /\ nm_info = [ tag |-> "none", base |-> << >>, version |-> 0 ]
    /\ nm_latest = [ tag |-> "none", version |-> 0, arms |-> { }, hops |-> { } ]
    /\ IdleRead
    /\ IdleCodec
    /\ IdleSink
    /\ IdleConv
    /\ IdleCallers

\* #[derive(Versioned)] on the struct.
DeriveVersioned ==
    /\ nm_info.tag = "none"
    /\ nm_info' = derive_versioned(nm_name)
    /\ UNCHANGED << nm_name, nm_latest >>
    /\ UNCHANGED << readVars, codecVars, sinkVars, convVars, callerVars >>

\* #[derive(UpgradeLatest)] on the struct, by a macro crate built with or
\* without overflow checks.
DeriveUpgradeLatest ==
    /\ nm_latest.tag = "none"
    /\ \E oc \in BOOLEAN : nm_latest' = derive_upgrade_latest(nm_name, oc)
    /\ UNCHANGED << nm_name, nm_info >>
    /\ UNCHANGED << readVars, codecVars, sinkVars, convVars, callerVars >>

NameNext == DeriveVersioned \/ DeriveUpgradeLatest

NameSpec == NameInit /\ [][NameNext]_vars

(***************************************************************************)
(* Callers.  Each caller owns a source bound to a stream of its own and    *)
(* makes read calls on it, one after another; the steps of different       *)
(* callers interleave.  A method of DataSource takes `&mut self`: it works *)
(* on the source it is called on.                                          *)
(***************************************************************************)
Callers == { "a", "b" }

\* A message under the header the source's shape gives it (for_msg, with the
\* payload's length where the header carries one).
Framed(kind, m) ==
    EncodeHeader(IF kind = "MyStream" THEN TinyHeader_for_msg(m)
                 ELSE BasicHeader_for_msg(m, U32Of(0, Len(to_writer(m)))))
    \o to_writer(m)

\* The messages a stream starts with, and those that follow.
FirstMessages  == { Msg("Foo", 1, U32Of(0, 1234)), Msg("Foo", 1, U32Of(U16Max, U16Max)),
                    Msg("Bar", 1, << 0, 0, 0, 7 >>) }
SecondMessages == { Msg("Foo", 2, U32Of(0, 1234)) }

\* Two messages back to back; a payload under an id of no family, followed
\* by a message; a header cut short.
CallerStreams(kind) ==
    { Framed(kind, m1) \o Framed(kind, m2) : m1 \in FirstMessages, m2 \in SecondMessages }
    \cup { EncodeHeader(IF kind = "MyStream" THEN TinyHeader_new(0, 1)
                        ELSE BasicHeader_new(0, 1, U32Zero))
           \o Framed(kind, Msg("Bar", 1, << 0, 0, 0, 7 >>)),
           Prefix(Framed(kind, Msg("Bar", 1, << 0, 0, 0, 7 >>)), 3) }

\* The caller is in no call.
IdleCall == [ pc |-> "Idle", op |-> "none", start |-> 0, header |-> NoHeader,
              target |-> "", msg |-> NoMsg ]

CallersInit ==
    /\ build \in [ hooks : { "default", "overridden" }, oc : BOOLEAN ]
    /\ sources \in [ Callers -> UNION { { [ kind |-> k, stream |-> st, pos |-> 0 ] :
                                              st \in CallerStreams(k) } :
                                        k \in { "MyStream", "CborData" } } ]
    /\ running = [ c \in Callers |-> IdleCall ]
    /\ returned = [ c \in Callers |-> << >> ]
    /\ IdleRead
    /\ IdleCodec
    /\ IdleSink
    /\ IdleConv
    /\ IdleName

\* A variant of the reader in which all sources read through one cursor.
Seek_SharedCursor(srcs, c, at) == [ x \in DOMAIN srcs |-> [ srcs[x] EXCEPT !.pos = at ] ]

\* The reader of caller c's source has been read up to `at`.
Seek(srcs, c, at) == [ srcs EXCEPT ![c].pos = at ]

\* The call of caller c returns (or unwinds) with `res`, its reader at `at`.
Return(c, res, at) ==
    /\ sources' = Seek(sources, c, at)
    /\ returned' = [ returned EXCEPT ![c] =
                         Append(@, [ op |-> running[c].op, start |-> running[c].start,
                                     res |-> res, end |-> at ]) ]
    /\ running' = [ running EXCEPT ![c] = IdleCall ]

\* Caller c calls read_message or expect_message on its source.  A caller
\* that unwound with a panic calls no more.
Enter(c, o) ==
    /\ running[c].pc = "Idle"
    /\ Len(returned[c]) < MaxCalls
    /\ returned[c] # << >> => returned[c][Len(returned[c])].res.tag # "Panic"
    /\ running' = [ running EXCEPT ![c] =
                        [ IdleCall EXCEPT !.pc = "AwaitHeader", !.op = o,
                                          !.start = sources[c].pos ] ]
    /\ UNCHANGED << build, sources, returned >>
    /\ UNCHANGED << readVars, codecVars, sinkVars, convVars, nameVars >>

\* `let header = src.read_header()?;`
Header(c) ==
    /\ running[c].pc = "AwaitHeader"
    /\ LET src == sources[c]
           r == DeserializeFrom(HeaderShape(src.kind), src.stream, src.pos)
       IN  IF r.tag = "Ok"
           THEN /\ running' = [ running EXCEPT ![c].header = r.hdr, ![c].pc = "Dispatch" ]
                /\ sources' = Seek(sources, c, r.at)
                /\ UNCHANGED returned
           ELSE \E at \in { r.at, Len(src.stream) } :
                    Return(c, Err(FromIoError(src.kind)), at)
    /\ UNCHANGED build
    /\ UNCHANGED << readVars, codecVars, sinkVars, convVars, nameVars >>

\* The match on header.msg_id() of read_message, the test of expect_message.
DispatchId(c) ==
    /\ running[c].pc = "Dispatch"
    /\ LET call == running[c]
           id == msg_id(call.header)
           t == IF call.op = "read_message" THEN match_arms(MyGroup1, id)
                ELSE IF expect_matches(ExpectedT(call.op), call.header)
                THEN ExpectedT(call.op) ELSE ""
       IN  IF t # ""
           THEN /\ running' = [ running EXCEPT ![c].target = t, ![c].pc = "ResolvePayload" ]
                /\ UNCHANGED << sources, returned >>
           ELSE Return(c, IF call.op = "read_message" THEN unknown_message(build.hooks, id)
                          ELSE unexpected_message(build.hooks, ExpectedT(call.op), id),
                       sources[c].pos)
    /\ UNCHANGED build
    /\ UNCHANGED << readVars, codecVars, sinkVars, convVars, nameVars >>

\* upgrade_latest: the match on the version, and in the arm
\* `let msg = src.read_message::<V>()?;`
ReadPayload(c) ==
    /\ running[c].pc = "ResolvePayload"
    /\ LET call == running[c]
           src == sources[c]
           ver == msg_ver(call.header)
           w == PayloadWindow(src.kind, call.header, Drop(src.stream, src.pos))
           d == from_reader(w, call.target, ver)
       IN  IF ver \notin all_versions(call.target)
           THEN Return(c, unknown_version(build.hooks, call.target, ver), src.pos)
           ELSE IF d.tag # "Ok"
           THEN \E at \in IF d.tag = "Eof" THEN { src.pos + d.used, src.pos + Len(w) }
                          ELSE { src.pos + d.used } :
                    Return(c, Err(FromCborError(src.kind, d.tag)), at)
           ELSE /\ running' = [ running EXCEPT ![c].msg = d.msg, ![c].pc = "Convert" ]
                /\ sources' = Seek(sources, c, src.pos + d.used)
                /\ UNCHANGED returned
    /\ UNCHANGED build
    /\ UNCHANGED << readVars, codecVars, sinkVars, convVars, nameVars >>

\* `Ok(<Target as FromVersion<V>>::from_version(msg))`, wrapped in the enum
\* variant by read_message.
ConvertLatest(c) ==
    /\ running[c].pc = "Convert"
    /\ LET call == running[c]
           v == FromVersion(call.target, msg_ver(call.header), struct_version(call.target),
                            call.msg, build.oc).val
           res == IF v = PanicMsg THEN Panic("from_version") ELSE Ok("bare", v)
       IN  Return(c, IF call.op = "read_message" THEN to_match_arm(call.target, res) ELSE res,
                  sources[c].pos)
    /\ UNCHANGED build
    /\ UNCHANGED << readVars, codecVars, sinkVars, convVars, nameVars >>

CallersNext ==
    \E c \in Callers :
        \/ \E o \in { "read_message", "expect_Foo" } : Enter(c, o)
        \/ Header(c)
        \/ DispatchId(c)
        \/ ReadPayload(c)
        \/ ConvertLatest(c)

CallersSpec == CallersInit /\ [][CallersNext]_vars

(***************************************************************************)
(* Properties.                                                             *)
(***************************************************************************)
\* The call has returned or unwound.
Finished == pc \in { "Done", "Failed", "Panicked" }

\* The header of the source's shape for a payload, with the payload's length
\* where the shape carries one, followed by the payload.
StreamOf(kind, id, ver, m) ==
    LET p == to_writer(m)
        h == IF kind = "MyStream" THEN TinyHeader_new(id, ver)
             ELSE BasicHeader_new(id, ver, U32Of(0, Len(p)))
    IN  EncodeHeader(h) \o p

\* The bytes a header of the source occupies: 4 for (msg_id, msg_ver), 8 with
\* msg_len.
HeaderBytes(kind) == IF kind = "MyStream" THEN 4 ELSE 8

\* The step-wise call and the operation as a function agree on the result.
StepwiseAgrees ==
    Finished =>
        result = IF op = "read_message"
                 THEN read_message(src_kind, hooks, overflow_checks, stream)
                 ELSE expect_message(ExpectedT(op), src_kind, hooks, overflow_checks, stream)

\* ---- C1 ------------------------------------------------------------------
\* What the chain of Foo adds to the field of a version-v value: 1 + 10 from
\* version 1, 10 from version 2, nothing from version 3.
C1_Added(v) == CASE v = 1 -> 11 [] v = 2 -> 10 [] v = 3 -> 0

\* C1: read_message on header (123, v) followed by the payload Foo version v
\* holding x returns the Foo variant holding FooV3 { foo3: x + C1_Added(v) },
\* for v = 1, 2, 3 and every x for which the additions do not overflow.
C1_FooChain ==
    \A v \in 1 .. 3 : \A x \in FooVals :
        ( /\ Finished
          /\ op = "read_message"
          /\ stream = StreamOf(src_kind, 123, v, Msg("Foo", v, x))
          /\ ~Add32(x, C1_Added(v)).overflow )
        => result = Ok("Foo", Msg("Foo", 3, Add32(x, C1_Added(v)).val))

\* The test's case: FooV1 { foo: 1234 } arrives as Foo(FooV3 { foo3: 1245 }).
C1_Witness ==
    /\ pc = "Done"
    /\ op = "read_message"
    /\ src_kind = "MyStream"
    /\ stream = StreamOf("MyStream", 123, 1, Msg("Foo", 1, U32Of(0, 1234)))
    /\ result = Ok("Foo", Msg("Foo", 3, U32Of(0, 1245)))

\* ---- C2 ------------------------------------------------------------------
\* C2: when the header carries family F's id and a version in 1..latest(F),
\* expect_message::<F> returns the bare value v exactly when read_message on
\* the same bytes returns the variant F wrapping the same v.
C2_ExpectVsRead ==
    \A F \in Families :
        ( /\ Finished
          /\ header # NoHeader
          /\ msg_id(header) = MSG_ID(F)
          /\ msg_ver(header) \in 1 .. struct_version(F) )
        => /\ ( op = (IF F = "Foo" THEN "expect_Foo" ELSE "expect_Bar") =>
                  LET other == read_message(src_kind, hooks, overflow_checks, stream)
                  IN  /\ (result.tag = "Ok") <=> (other.tag = "Ok")
                      /\ result.tag = "Ok" =>
                             /\ result.variant = "bare"
                             /\ other = Ok(F, result.msg) )
           /\ ( op = "read_message" =>
                  LET other == expect_message(F, src_kind, hooks, overflow_checks, stream)
                  IN  /\ (result.tag = "Ok") <=> (other.tag = "Ok")
                      /\ result.tag = "Ok" =>
                             /\ result.variant = F
                             /\ other = Ok("bare", result.msg) )

\* Header (999, 1) and a Bar payload: the bare Bar through expect_message,
\* the Bar variant through read_message.
C2_Witness ==
    /\ pc = "Done"
    /\ op = "expect_Bar"
    /\ stream = StreamOf(src_kind, 999, 1, Msg("Bar", 1, << 0, 0, 0, 7 >>))
    /\ result = Ok("bare", Msg("Bar", 1, << 0, 0, 0, 7 >>))
    /\ read_message(src_kind, hooks, overflow_checks, stream)
           = Ok("Bar", Msg("Bar", 1, << 0, 0, 0, 7 >>))

\* ---- C3 ------------------------------------------------------------------
\* Every adjacent step from version v up to version n, applied in order.
RECURSIVE C3_Sequential(_, _, _, _, _)
C3_Sequential(base, v, n, val, oc) ==
    IF v >= n \/ val = PanicMsg THEN val
    ELSE C3_Sequential(base, v + 1, n, AdjacentStep(base, v, val, oc), oc)

\* The payload as the declared version decodes it.
C3_Decoded ==
    from_reader(PayloadWindow(src_kind, header, Drop(stream, HeaderBytes(src_kind))),
                target, msg_ver(header))

\* C3: for a declared version v in 1..N whose payload decodes, upgrade_latest
\* returns the decoded value with every adjacent step v -> v+1 -> .. -> N
\* applied in order; and every generated hop gives that same value.
C3_HopIsSequential ==
    ( /\ Finished
      /\ target # ""
      /\ msg_ver(header) \in 1 .. struct_version(target)
      /\ C3_Decoded.tag = "Ok" )
    => LET n == struct_version(target)
           v == msg_ver(header)
           want == C3_Sequential(target, v, n, C3_Decoded.msg, overflow_checks)
       IN  /\ IF want = PanicMsg THEN result.tag = "Panic"
              ELSE result.tag = "Ok" /\ result.msg = want
           /\ \A lo \in 1 .. n :
                  HopEmitted(lo, n) /\ lo = v =>
                      quote_from_version_hop(target, lo, n, C3_Decoded.msg,
                                             overflow_checks).val = want

\* A version-1 Foo went through the generated hop 1 -> 3.
C3_Witness ==
    /\ pc = "Done"
    /\ target = "Foo"
    /\ msg_ver(header) = 1
    /\ convs = << Conv("hop", "Foo", 1, 3), Conv("user", "Foo", 1, 2),
                  Conv("user", "Foo", 2, 3) >>
    /\ result.msg = Msg("Foo", 3, U32Of(0, 1245))

\* ---- C4 ------------------------------------------------------------------
\* C4: upgrade_latest with a version outside 1..N calls unknown_version once,
\* with the family's base type and the version, returns what the hook
\* produces (its error, when the hook returns one), and reads no payload.
C4_UnknownVersion ==
    ( /\ Finished
      /\ target # ""
      /\ msg_ver(header) \notin 1 .. struct_version(target) )
    => /\ calls = << Call("read_header", "", 0, 0),
                     Call("unknown_version", target, 0, msg_ver(header)) >>
       /\ hooks = "overridden" =>
              result = Err(Error("unknown_version", target, msg_ver(header)))
       /\ hooks = "default" => result.tag = "Panic"
       /\ pos = HeaderBytes(src_kind)
       /\ convs = << >>

\* Version latest + 1 of Foo, on a source that overrides the hook.
C4_Witness ==
    /\ pc = "Failed"
    /\ target = "Foo"
    /\ msg_ver(header) = 4
    /\ result = Err(Error("unknown_version", "Foo", 4))

\* ---- C5 ------------------------------------------------------------------
\* C5: read_message on a header whose id is no family's calls unknown_message
\* once with that id, returns what the hook produces, calls no other hook,
\* reads no payload, and has consumed the header bytes and nothing more.
C5_UnknownId ==
    ( /\ Finished
      /\ op = "read_message"
      /\ header # NoHeader
      /\ \A F \in Families : msg_id(header) # MSG_ID(F) )
    => /\ calls = << Call("read_header", "", 0, 0),
                     Call("unknown_message", "", 0, msg_id(header)) >>
       /\ hooks = "overridden" =>
              result = Err(Error("unknown_message", "", msg_id(header)))
       /\ hooks = "default" => result.tag = "Panic"
       /\ pos = HeaderBytes(src_kind)
       /\ convs = << >>

\* Id 65535 with a complete Foo payload behind the header.
C5_Witness ==
    /\ pc = "Failed"
    /\ op = "read_message"
    /\ msg_id(header) = 65535
    /\ Len(stream) > HeaderBytes(src_kind)
    /\ result = Err(Error("unknown_message", "", 65535))

\* ---- C6 ------------------------------------------------------------------
\* C6: expect_message::<T> reads one header; if its id differs from T's id
\* (also when it is another family's id) it calls unexpected_message with the
\* id received, returns what the hook produces and reads no payload; if the
\* ids are equal it returns what T::upgrade_latest(src, msg_ver) returns.
C6_Expect ==
    ( /\ Finished
      /\ op \in ExpectOps
      /\ header # NoHeader )
    => LET T == IF op = "expect_Foo" THEN "Foo" ELSE "Bar"
       IN  /\ calls[1] = Call("read_header", "", 0, 0)
           /\ Len(SelectSeq(calls, LAMBDA c : c.fn = "read_header")) = 1
           /\ msg_id(header) # MSG_ID(T) =>
                  /\ calls = << Call("read_header", "", 0, 0),
                                Call("unexpected_message", T, 0, msg_id(header)) >>
                  /\ hooks = "overridden" =>
                         result = Err(Error("unexpected_message", T, msg_id(header)))
                  /\ hooks = "default" => result.tag = "Panic"
                  /\ pos = HeaderBytes(src_kind)
           /\ msg_id(header) = MSG_ID(T) =>
                  /\ target = T
                  /\ result = upgrade_latest(src_kind, hooks, overflow_checks, T, header,
                                             Drop(stream, HeaderBytes(src_kind))).res

\* Bar was expected and the id of Foo, another family of the group, arrived.
C6_Witness ==
    /\ pc = "Failed"
    /\ op = "expect_Bar"
    /\ msg_id(header) = 123
    /\ result = Err(Error("unexpected_message", "Bar", 123))

\* ---- C7 ------------------------------------------------------------------
\* Decoding the complete stream encoding gives the header back.
StreamRoundTrip ==
    c_pc = "read" /\ c_dec.avail = Len(c_out.bytes) =>
        c_dec.tag = "Ok" /\ c_dec.hdr = c_hdr

\* C7: decode(encode(h)) = h for every TinyHeader and every BasicHeader, for
\* the stream pair serialize_into/deserialize_from and for the array pair
\* serialize/deserialize.
C7_RoundTrip ==
    c_hdr.shape \in { "Tiny", "Basic" } =>
        /\ StreamRoundTrip
        /\ c_pc = "array" => c_out.tag = "Ok"
        /\ c_pc = "fromarray" => c_dec.tag = "Ok" /\ c_dec.hdr = c_hdr

\* ---- C8 ------------------------------------------------------------------
\* The 8 bytes of a BasicHeader: msg_id, msg_ver, msg_len, big-endian.
C8_Wire(h) ==
    << h.msg_id \div 256, h.msg_id % 256,
       h.msg_ver \div 256, h.msg_ver % 256,
       h.msg_len[1] \div 256, h.msg_len[1] % 256,
       h.msg_len[2] \div 256, h.msg_len[2] % 256 >>

\* C8: encoding a BasicHeader yields exactly these 8 bytes; serialize returns
\* them and deserialize accepts them, both without failing.
C8_BasicEncoding ==
    c_hdr.shape = "Basic" =>
        /\ c_pc = "written" => c_out = [ tag |-> "Ok", bytes |-> C8_Wire(c_hdr) ]
        /\ c_pc = "array" => c_out = [ tag |-> "Ok", bytes |-> C8_Wire(c_hdr) ]
        /\ c_pc = "fromarray" => c_dec.tag = "Ok" /\ c_dec.hdr = c_hdr

\* ---- C9 ------------------------------------------------------------------
\* C9: encoding a TinyHeader or a FixedHeader yields exactly 4 bytes: the high
\* and the low byte of msg_id, then the high and the low byte of msg_ver.
C9_TinyEncoding ==
    ( c_hdr.shape \in { "Tiny", "Fixed" } /\ c_pc \in { "written", "array" } ) =>
        c_out = [ tag |-> "Ok",
                  bytes |-> << c_hdr.msg_id \div 256, c_hdr.msg_id % 256,
                               c_hdr.msg_ver \div 256, c_hdr.msg_ver % 256 >> ]

\* TinyHeader (999, 3) written to a stream as 03 E7 00 03.
C9_Witness ==
    /\ c_pc = "written"
    /\ c_hdr = TinyHeader_new(999, 3)
    /\ c_out.bytes = << 3, 231, 0, 3 >>

\* ---- C10 -----------------------------------------------------------------
\* C10: decoding from a stream that holds fewer bytes than the header's size
\* (4 for TinyHeader, 8 for BasicHeader), the empty stream included, returns
\* an error and no header.
C10_Truncated ==
    ( /\ c_pc = "read"
      /\ \/ c_hdr.shape = "Tiny"  /\ c_dec.avail < 4
         \/ c_hdr.shape = "Basic" /\ c_dec.avail < 8 )
    => c_dec.tag = "Err" /\ c_dec.hdr = NoHeader

\* A BasicHeader stream that ends one byte early.
C10_Witness ==
    /\ c_pc = "read"
    /\ c_hdr.shape = "Basic"
    /\ c_dec.avail = 7
    /\ c_dec.tag = "Err"

\* ---- C11 -----------------------------------------------------------------
\* The family the header's id selects for the operation called, "" if none.
Selected ==
    IF header = NoHeader THEN ""
    ELSE IF op = "read_message" THEN match_arms(MyGroup1, msg_id(header))
    ELSE IF op \in ExpectOps /\ expect_matches(ExpectedT(op), header) THEN ExpectedT(op)
    ELSE ""

\* The header names a family of the operation and one of its versions.
KnownIdAndVersion == Selected # "" /\ msg_ver(header) \in all_versions(Selected)

\* What DataSource::read_message::<<Selected>V<msg_ver>> makes of the bytes
\* after the header.
Decoded ==
    from_reader(PayloadWindow(src_kind, header, Drop(stream, HeaderBytes(src_kind))),
                Selected, msg_ver(header))

HookNames == { "unknown_message", "unknown_version", "unexpected_message" }

\* C11: when the id and the version are known and the source fails to decode
\* the payload, the call returns the source's error for that failure as it
\* is, calls none of the three hooks and applies no conversion.
C11_DecodeErrorAsIs ==
    ( Finished /\ KnownIdAndVersion /\ Decoded.tag # "Ok" )
    => /\ result = Err(FromCborError(src_kind, Decoded.tag))
       /\ convs = << >>
       /\ \A i \in 1 .. Len(calls) : calls[i].fn \notin HookNames

\* A FooV2 header over a FooV1 payload read from CborData: a Serializer error.
C11_Witness ==
    /\ pc = "Failed"
    /\ src_kind = "CborData"
    /\ Selected = "Foo"
    /\ msg_ver(header) = 2
    /\ Decoded.tag = "Data"
    /\ result = Err(Error("Serializer", "", 0))

\* ---- C12 -----------------------------------------------------------------
\* The positions of the calls of DataSource method f in the log.
CallsOf(f) == { i \in 1 .. Len(calls) : calls[i].fn = f }

\* C12: at every point of a call read_header has been called at most once
\* and read_message at most once, and read_message only after read_header
\* returned a header; a finished call has called read_header exactly once,
\* and read_message exactly once when the id matched and the version is one
\* of 1..latest, and not at all otherwise.
C12_OneHeaderOnePayload ==
    /\ Cardinality(CallsOf("read_header")) <= 1
    /\ Cardinality(CallsOf("read_message")) <= 1
    /\ \A i \in CallsOf("read_message") :
           /\ header # NoHeader
           /\ \E j \in CallsOf("read_header") : j < i
    /\ Finished =>
           /\ Cardinality(CallsOf("read_header")) = 1
           /\ (Cardinality(CallsOf("read_message")) = 1) <=> KnownIdAndVersion

\* A finished call that read one header and then one payload.
C12_Witness ==
    /\ Finished
    /\ KnownIdAndVersion
    /\ Decoded.tag # "Ok"
    /\ Len(calls) = 2
    /\ calls[1].fn = "read_header"
    /\ calls[2] = Call("read_message", "Foo", 1, 0)

\* ---- C13 -----------------------------------------------------------------
\* C13: for Bar, whose only version is 1, a version-1 payload that decodes is
\* returned as decoded; the one conversion applied is the reflexive impl, and
\* the derive emits no hop for the family.
C13_SingleVersion ==
    /\ \A lo \in 0 .. MaxVer : ~HopEmitted(lo, struct_version("Bar"))
    /\ ( Finished /\ Selected = "Bar" /\ msg_ver(header) = 1 /\ Decoded.tag = "Ok" )
       => /\ result.tag = "Ok"
          /\ result.msg = Decoded.msg
          /\ convs = << Conv("reflexive", "Bar", 1, 1) >>

\* expect_message::<Bar> returned the BarV1 that needs all 64 bits.
C13_Witness ==
    /\ pc = "Done"
    /\ op = "expect_Bar"
    /\ convs = << Conv("reflexive", "Bar", 1, 1) >>
    /\ result = Ok("bare", Msg("Bar", 1, << 1, 0, 0, 0 >>))

\* ---- C14 -----------------------------------------------------------------
\* The bytes the write_message call has put into the sink's writer.
Received == Drop(w_inner.buf, w_start)

\* The call has passed the serialization of the payload.
Writing == w_pc \in { "header", "payload", "done", "failed", "readback" }

\* C14: write_message serializes the payload before anything reaches the
\* sink, builds a header whose msg_len is the payload's byte length, and
\* writes the header before the payload: what the sink has received is always
\* a prefix of header-then-payload, and a call that returns Ok has delivered
\* exactly the 8 header bytes (id, version, length, big-endian) followed by
\* exactly msg_len payload bytes.
C14_HeaderThenPayload ==
    LET payload == to_writer(w_msg)
        hdr8 == BE16(MSG_ID(w_msg.base)) \o BE16(w_msg.ver) \o << 0, 0 >>
                    \o BE16(Len(payload))
    IN  /\ w_pc = "new" => Received = << >>
        /\ Writing =>
               /\ w_log[1] = Did("serialize", payload)
               /\ w_buf = payload
               /\ w_hdr.msg_len = U32Of(0, Len(payload))
               /\ Received = Prefix(hdr8 \o payload, Len(Received))
        /\ w_pc = "header" => Received = << >>
        /\ w_res = OkUnit =>
               /\ Received = hdr8 \o payload
               /\ Len(Received) = 8 + Len(payload)
               /\ w_log = << Did("serialize", payload), Did("header", hdr8),
                             Did("payload", payload) >>

\* A FooV1 written into a slice that already held a message.
C14_Witness ==
    /\ w_res = OkUnit
    /\ w_msg = Msg("Foo", 1, U32Of(0, 1234))
    /\ w_start > 0
    /\ w_inner.cap # Unbounded
    /\ Len(w_log) = 3

\* ---- C16 -----------------------------------------------------------------
\* for_msg of the header type `shape`.
ForMsgOf(shape, msg, len) ==
    CASE shape = "Tiny"  -> TinyHeader_for_msg(msg)
      [] shape = "Fixed" -> FixedHeader_for_msg(msg)
      [] shape = "Basic" -> BasicHeader_for_msg(msg, len)

\* C16: a header built by for_msg carries the id of the message's family and
\* the version of the message's type; the header built for any other version
\* of the family differs from it in msg_ver only.
C16_ForMsg ==
    w_hdr # NoHeader =>
        /\ msg_id(w_hdr) = MSG_ID(w_msg.base)
        /\ msg_ver(w_hdr) = w_msg.ver
        /\ \A m2 \in Messages :
               m2.base = w_msg.base =>
                   ForMsgOf(w_hdr.shape, m2, w_hdr.msg_len) = [ w_hdr EXCEPT !.msg_ver = m2.ver ]

\* TinyHeader::for_msg(&FooV2 { .. }) is (123, 2).
C16_Witness ==
    /\ w_pc = "built"
    /\ w_hdr.shape = "Tiny"
    /\ w_msg.base = "Foo"
    /\ w_msg.ver = 2
    /\ w_hdr = TinyHeader_new(123, 2)

\* ---- C17 -----------------------------------------------------------------
\* C17: a message of any family and version written by write_message and read
\* back by the group's read_message from the bytes written comes back as the
\* family's variant holding the message with every adjacent step up to the
\* latest version applied, whenever those steps yield a value.
C17_WriteReadRoundTrip ==
    w_pc = "readback" =>
        LET want == C3_Sequential(w_msg.base, w_msg.ver, struct_version(w_msg.base),
                                  w_msg, w_back.oc)
        IN  want # PanicMsg => w_back.res = Ok(w_msg.base, want)

\* FooV1 { foo: 1234 } written and read back as Foo(FooV3 { foo3: 1245 }).
C17_Witness ==
    /\ w_pc = "readback"
    /\ w_msg = Msg("Foo", 1, U32Of(0, 1234))
    /\ w_back.res = Ok("Foo", Msg("Foo", 3, U32Of(0, 1245)))

\* ---- C15 -----------------------------------------------------------------
\* C15: when CborData has read a payload under a header with msg_len = L, the
\* reader is at most L bytes past the header, whatever the decode made of the
\* bytes; and when the decode succeeded it is exactly L bytes past the header.
C15_LengthBoundary ==
    ( /\ Finished
      /\ src_kind = "CborData"
      /\ CallsOf("read_message") # { }
      /\ header.msg_len[1] = 0 )
    => LET L == header.msg_len[2]
       IN  /\ pos - HeaderBytes("CborData") <= L
           /\ Decoded.tag = "Ok" => pos - HeaderBytes("CborData") = L

\* ---- C18 -----------------------------------------------------------------
\* C18: whatever from_version calls took a value to the latest version of its
\* family (each adjacent step in turn, or one call across several versions),
\* the value reached is the one the single conversion to the latest version
\* gives, which for a version-1 value is the second adjacent step applied to
\* the first.
C18_Composition ==
    ( cv_steps # << >> /\ (cv_val = PanicMsg \/ cv_val.ver = struct_version(cv_from.base)) )
    => /\ cv_val = FromVersion(cv_from.base, cv_from.ver, struct_version(cv_from.base),
                               cv_from, cv_oc).val
       /\ cv_from.ver = 1 =>
              cv_val = C3_Sequential(cv_from.base, 1, 3, cv_from, cv_oc)

\* test_adapter: MyStructV1 { x: 42 } taken to version 2 and then to version
\* 3 is MyStructV3 { x: 42, y: 0 }.
C18_Witness ==
    /\ cv_from = Msg("MyStruct", 1, << 0, 0, 0, 42 >>)
    /\ Len(cv_steps) = 2
    /\ cv_val = Msg("MyStruct", 3, << 0, 0, 0, 42, 0, 0, 0, 0 >>)

\* ---- C19 -----------------------------------------------------------------
\* A header was read and one of the three conditions holds: the id is of no
\* family of the group, the id is not the one asked for, or the version is
\* not one of the family's.
HookCondition == header # NoHeader /\ ~KnownIdAndVersion

\* The hook the condition goes to, and the family and number it is given.
HookDue ==
    IF Selected # "" THEN Error("unknown_version", Selected, msg_ver(header))
    ELSE IF op = "read_message" THEN Error("unknown_message", "", msg_id(header))
    ELSE Error("unexpected_message", ExpectedT(op), msg_id(header))

\* C19 as it is stated: with the default hooks, each of the three conditions
\* ends the read operation in an Err.
C19_DefaultHooksReturnErr ==
    ( Finished /\ HookCondition /\ hooks = "default" ) => result.tag = "Err"

\* C19: with the default hooks each of the three conditions panics in the
\* hook it goes to, and the read operation returns nothing; with hooks that
\* the source overrides, the read operation returns the hook's error value
\* as Err.
C19_DefaultHooksPanic ==
    ( Finished /\ HookCondition )
    => result = IF hooks = "default" THEN Panic(HookDue.kind) ELSE Err(HookDue)

\* expect_message::<Foo> on Bar's id, default hooks: a panic in
\* unexpected_message.
C19_Witness ==
    /\ pc = "Panicked"
    /\ hooks = "default"
    /\ op = "expect_Foo"
    /\ msg_id(header) = 999
    /\ result = Panic("unexpected_message")

\* ---- C20 -----------------------------------------------------------------
\* The number a sequence of digits denotes.
RECURSIVE C20_Number(_)
C20_Number(digits) ==
    IF digits = << >> THEN 0
    ELSE C20_Number(SubSeq(digits, 1, Len(digits) - 1)) * 10 + DigitValue(digits[Len(digits)])

\* C20: the derive on a name <Base>V<N>, split at the last 'V', with a
\* non-empty <Base> and <N> the digits of a number up to 65535, gives VER = N
\* and Base = <Base>; on every other name (no 'V', nothing before the last
\* 'V', a suffix that is empty, not all digits, or above 65535) it fails.
C20_NameSplit ==
    nm_info.tag # "none" =>
        LET vs == { i \in 1 .. Len(nm_name) : nm_name[i] = "V" }
            k == CHOOSE i \in vs : \A j \in vs : j <= i
            suffix == SubSeq(nm_name, k + 1, Len(nm_name))
        IN  IF /\ vs # { }
               /\ k > 1
               /\ suffix # << >>
               /\ \A i \in 1 .. Len(suffix) : IsDigit(suffix[i])
               /\ C20_Number(suffix) <= 65535
            THEN nm_info = [ tag |-> "Ok", base |-> SubSeq(nm_name, 1, k - 1),
                             version |-> C20_Number(suffix) ]
            ELSE nm_info.tag = "Panic"

\* BasicV2::VER == 2.
C20_Witness ==
    /\ nm_name = << "B", "a", "s", "i", "c", "V", "2" >>
    /\ nm_info = [ tag |-> "Ok", base |-> << "B", "a", "s", "i", "c" >>, version |-> 2 ]

\* ---- C21 -----------------------------------------------------------------
\* C21: every call value.into_version() with target version `to` leaves the
\* value that <base>V<to>::from_version(value) gives, and every conversion of
\* a value to its own version, called either way, leaves the value as it is.
C21_IntoIsFrom ==
    [][ \A how \in ConvCalls, to \in 1 .. MaxVer :
            cv_steps' = Append(cv_steps, Conv(how, cv_val.base, cv_val.ver, to))
            => /\ how = "into_version" =>
                     cv_val' = FromVersion(cv_val.base, cv_val.ver, to, cv_val, cv_oc).val
               /\ to = cv_val.ver => cv_val' = cv_val ]_vars

\* MyStructV1 { x: 42 }.into_version() with target MyStructV2, then
\* MyStructV2::from_version of the MyStructV2 obtained.
C21_Witness ==
    /\ cv_from = Msg("MyStruct", 1, << 0, 0, 0, 42 >>)
    /\ cv_steps = << Conv("into_version", "MyStruct", 1, 2),
                     Conv("from_version", "MyStruct", 2, 2) >>
    /\ cv_val = Msg("MyStruct", 2, << 0, 0, 0, 42, 0 >>)

\* ---- C22 -----------------------------------------------------------------
\* The path of a call, and the steps that leave it.
C22_Path == { << "Idle", "AwaitHeader" >>, << "AwaitHeader", "Dispatch" >>,
              << "Dispatch", "ResolvePayload" >>, << "ResolvePayload", "Done" >> }
C22_ToFailed == { << s, "Failed" >> : s \in { "AwaitHeader", "Dispatch", "ResolvePayload" } }
C22_ToPanicked == { << s, "Panicked" >> : s \in { "Dispatch", "ResolvePayload" } }

\* The step is from one state of the call to another, along one of the edges.
C22_Along(edges) == << pc, pc' >> \in edges

\* No method of the source is called a second time within the call.
C22_NoRetry ==
    \A f \in { "read_header", "read_message" } \cup HookNames : Cardinality(CallsOf(f)) <= 1

\* C22 as it is stated: every step of a call is a step of the path
\* AwaitHeader -> Dispatch -> ResolvePayload -> Done or a step from the path
\* to Failed, nothing changes once the call is in Done or Failed, no method of
\* the source is called twice, and a call that was entered reaches Done or
\* Failed.
C22_DoneOrFailed ==
    /\ [][C22_Along(C22_Path \cup C22_ToFailed)]_vars
    /\ []C22_NoRetry
    /\ (pc = "AwaitHeader") ~> (pc \in { "Done", "Failed" })

\* C22: every step of a call is a step of the path AwaitHeader -> Dispatch ->
\* ResolvePayload -> Done, a step from the path to Failed, or a step from
\* Dispatch or ResolvePayload into a panic (of a default hook, or of a
\* conversion that overflows); each step moves forward, so no state is
\* visited twice; nothing changes once the call is in Done, Failed or the
\* panic; no method of the source is called twice; and a call that was
\* entered reaches exactly one of the three ends.
C22_OnePassOneEnd ==
    /\ [][C22_Along(C22_Path \cup C22_ToFailed \cup C22_ToPanicked)]_vars
    /\ []C22_NoRetry
    /\ (pc = "AwaitHeader") ~> Finished

\* read_message on CborData took a FooV1 over the whole path to Done, through
\* the hop and both user steps.
C22_Witness ==
    /\ pc = "Done"
    /\ op = "read_message"
    /\ src_kind = "CborData"
    /\ Len(calls) = 2
    /\ Len(convs) = 3
    /\ result.tag = "Ok"

\* ---- C23 -----------------------------------------------------------------
\* The stream is too short for the header of the source.
C23_HeaderFails == DeserializeFrom(HeaderShape(src_kind), stream, 0).tag # "Ok"

\* C23: when read_header fails, the call returns read_header's error (the
\* source's error for the I/O failure) and has done nothing else: no header
\* is held and no family was selected, read_header is the only method of the
\* source that was called (no hook, no payload read), and no conversion ran.
C23_HeaderErrorOnly ==
    ( pc # "Idle" /\ pc # "AwaitHeader" /\ C23_HeaderFails )
    => /\ pc = "Failed"
       /\ result = Err(IF src_kind = "CborData" THEN Error("Io", "", 0)
                       ELSE Error("MyGroupError", "", 0))
       /\ calls = << Call("read_header", "", 0, 0) >>
       /\ header = NoHeader
       /\ target = ""
       /\ convs = << >>

\* expect_message::<Foo> on a CborData whose stream ends after three bytes
\* of the header.
C23_Witness ==
    /\ pc = "Failed"
    /\ op = "expect_Foo"
    /\ src_kind = "CborData"
    /\ Len(stream) = 3
    /\ result = Err(Error("Io", "", 0))
    /\ calls = << Call("read_header", "", 0, 0) >>

\* ---- C24 -----------------------------------------------------------------
\* The conversions that take version v of a family to its latest version N:
\* the reflexive impl for v = N, the user's step for v = N - 1, and for an
\* earlier v the generated hop with the user's steps v -> v+1 -> .. -> N
\* inside it.
C24_Chain(base, v) ==
    LET n == struct_version(base)
    IN  IF v = n THEN << Conv("reflexive", base, n, n) >>
        ELSE IF v = n - 1 THEN << Conv("user", base, v, n) >>
        ELSE << Conv("hop", base, v, n) >>
             \o [ i \in 1 .. (n - v) |-> Conv("user", base, v + i - 1, v + i) ]

\* C24: the schema type a payload is decoded as is the version msg_ver of the
\* family that the operation selects for msg_id, and the conversions applied
\* are the chain of that family from that version, whatever the payload
\* bytes are: all of the chain when the call returns a message, its first
\* steps when a step panics, none when the payload does not decode.  And the
\* result of a call is a function of the operation, the source, the build
\* and the bytes of the stream.
C24_HeaderDecides ==
    /\ \A i \in CallsOf("read_message") :
           calls[i] = Call("read_message", Selected, msg_ver(header), 0)
    /\ convs # << >> =>
           /\ KnownIdAndVersion
           /\ Len(convs) <= Len(C24_Chain(Selected, msg_ver(header)))
           /\ convs = SubSeq(C24_Chain(Selected, msg_ver(header)), 1, Len(convs))
    /\ ( Finished /\ result.tag = "Ok" ) => convs = C24_Chain(Selected, msg_ver(header))
    /\ Finished =>
           result = IF op = "read_message"
                    THEN read_message(src_kind, hooks, overflow_checks, stream)
                    ELSE expect_message(ExpectedT(op), src_kind, hooks, overflow_checks, stream)

\* A header (Foo, version 1) over a payload that is a FooV2: the payload is
\* decoded as FooV1 all the same, and fails.
C24_Witness ==
    /\ Finished
    /\ Selected = "Foo"
    /\ msg_ver(header) = 1
    /\ from_reader(PayloadWindow(src_kind, header, Drop(stream, HeaderBytes(src_kind))),
                   "Foo", 2).tag = "Ok"
    /\ calls[2] = Call("read_message", "Foo", 1, 0)
    /\ result.tag = "Err"

\* ---- C25 -----------------------------------------------------------------
\* The conversions from version v to the latest version n that exist once
\* UpgradeLatest is derived on version n: the reflexive impl of the library,
\* the adjacent step the user writes, and the hops the derive generated.
C25_Conversions(v, n, hops) ==
    { k \in { "reflexive", "user", "hop" } :
          \/ k = "reflexive" /\ v = n
          \/ k = "user" /\ v = n - 1
          \/ k = "hop" /\ v \in hops }

\* C25: deriving UpgradeLatest on version N >= 1 of a family generates a hop
\* for exactly the versions 1..N-2, so that every version v in 1..N has
\* exactly one conversion to N: the reflexive one for v = N, the user's step
\* for v = N-1, a generated hop for v <= N-2; and upgrade_latest has a match
\* arm for exactly the versions 1..N.
C25_OneConversionEach ==
    ( nm_latest.tag = "Ok" /\ nm_latest.version >= 1 )
    => LET n == nm_latest.version
       IN  /\ nm_latest.hops = 1 .. (n - 2)
           /\ nm_latest.arms = 1 .. n
           /\ \A v \in 1 .. n :
                  /\ Cardinality(C25_Conversions(v, n, nm_latest.hops)) = 1
                  /\ C25_Conversions(v, n, nm_latest.hops) =
                         IF v = n THEN { "reflexive" }
                         ELSE IF v = n - 1 THEN { "user" } ELSE { "hop" }

\* FooV3: one hop, from FooV1.
C25_Witness ==
    /\ nm_name = << "F", "o", "o", "V", "3" >>
    /\ nm_latest = [ tag |-> "Ok", version |-> 3, arms |-> 1 .. 3, hops |-> { 1 } ]

\* ---- C26 -----------------------------------------------------------------
\* What a call gives on a fresh source over the bytes `st`.
Alone(o, kind, hk, oc, st) ==
    IF o = "read_message" THEN read_message(kind, hk, oc, st)
    ELSE expect_message(ExpectedT(o), kind, hk, oc, st)

\* How many bytes of `st` a call on a fresh source over them may have
\* consumed when it ends.
AloneEnds(o, kind, hk, oc, st) ==
    LET r == DeserializeFrom(HeaderShape(kind), st, 0)
        t == IF r.tag # "Ok" THEN ""
             ELSE IF o = "read_message" THEN match_arms(MyGroup1, msg_id(r.hdr))
             ELSE IF expect_matches(ExpectedT(o), r.hdr) THEN ExpectedT(o) ELSE ""
        u == upgrade_latest(kind, hk, oc, t, r.hdr, Drop(st, r.at))
    IN  IF r.tag # "Ok" THEN { r.at, Len(st) }
        ELSE IF t = "" THEN { r.at }
        ELSE IF u.eof THEN { r.at + u.used, r.at + u.window }
        ELSE { r.at + u.used }

\* The step-wise call of Spec ends where AloneEnds says.
EndAgrees == Finished => pos \in AloneEnds(op, src_kind, hooks, overflow_checks, stream)

\* On the sources in `kinds` whose stream holds two messages back to back,
\* the first read_message gives what it gives on the first message alone, no
\* error, and ends where the first message ends; a second read_message
\* starts there, gives what it gives on the second message alone, no error,
\* and ends at the end of the stream.
C26_BackToBack(kinds) ==
    \A c \in DOMAIN sources : \A m1 \in FirstMessages, m2 \in SecondMessages :
        LET src == sources[c]
            log == returned[c]
            one == Framed(src.kind, m1)
            two == Framed(src.kind, m2)
        IN  ( src.kind \in kinds /\ src.stream = one \o two ) =>
                /\ ( Len(log) >= 1 /\ log[1].op = "read_message" ) =>
                       /\ log[1].res = read_message(src.kind, build.hooks, build.oc, one)
                       /\ log[1].res.tag # "Err"
                       /\ log[1].end = Len(one)
                /\ ( Len(log) >= 2 /\ log[1].op = "read_message"
                                   /\ log[2].op = "read_message" ) =>
                       /\ log[2].start = Len(one)
                       /\ log[2].res = read_message(src.kind, build.hooks, build.oc, two)
                       /\ log[2].res.tag # "Err"
                       /\ log[2].end = Len(one \o two)

\* C26 as it is stated: for every source, two successive read_message calls
\* on a stream of two well-formed messages return the first and then the
\* second message, each as if it were alone in a fresh stream, the first
\* call consuming exactly its own header and payload.
C26_AnySource == C26_BackToBack({ "MyStream", "CborData" })

\* C26: on a CborData source, whose header carries the payload's length and
\* whose payload decoder reads through a reader limited to it, two
\* successive read_message calls on a stream of two well-formed messages
\* return the first and then the second message, each as if it were alone
\* in a fresh stream, the first call consuming exactly its own header and
\* payload.
C26_LengthDelimited == C26_BackToBack({ "CborData" })

\* A CborData over FooV1 { foo: 1234 } followed by FooV2 { foo: 1234 }: both
\* read, the reader at the end of the stream.
C26_Witness ==
    \E c \in DOMAIN sources :
        /\ sources[c].kind = "CborData"
        /\ sources[c].stream = Framed("CborData", Msg("Foo", 1, U32Of(0, 1234)))
                                \o Framed("CborData", Msg("Foo", 2, U32Of(0, 1234)))
        /\ Len(returned[c]) = 2
        /\ returned[c][1].res = Ok("Foo", Msg("Foo", 3, U32Of(0, 1245)))
        /\ returned[c][2].res = Ok("Foo", Msg("Foo", 3, U32Of(0, 1244)))
        /\ sources[c].pos = Len(sources[c].stream)

\* ---- C27 -----------------------------------------------------------------
\* What belongs to caller c: its source, its call, what its calls returned.
C27_Of(c) == << sources[c], running[c], returned[c] >>

\* A step that changes something of caller c changes nothing of any other
\* caller, and no step changes what the callers share (the build).
C27_Frame ==
    /\ build' = build
    /\ \A c \in DOMAIN sources, d \in DOMAIN sources :
           ( c # d /\ C27_Of(c)' # C27_Of(c) ) => C27_Of(d)' = C27_Of(d)

\* C27: whatever the interleaving of the callers' steps, each call of a
\* caller returns what that call returns on a fresh source over the bytes
\* its own reader had left, and leaves its reader where that call does;
\* every step works on one caller's source and call only.
C27_OwnSourceOnly ==
    /\ [][C27_Frame]_vars
    /\ [](\A c \in DOMAIN sources : \A i \in 1 .. Len(returned[c]) :
              LET e == returned[c][i]
                  src == sources[c]
                  rest == Drop(src.stream, e.start)
              IN  /\ e.res = Alone(e.op, src.kind, build.hooks, build.oc, rest)
                  /\ (e.end - e.start) \in AloneEnds(e.op, src.kind, build.hooks, build.oc, rest))

\* Caller a has read its header and caller b is in the middle of its own
\* call, after which a's call returned.
C27_Witness ==
    /\ returned["a"] # << >>
    /\ returned["a"][1].res.tag = "Ok"
    /\ returned["b"] = << >>
    /\ running["b"].pc = "Convert"
    /\ sources["a"].stream # sources["b"].stream

\* ---- C28 -----------------------------------------------------------------
\* C28: when the payload of the message does not serialize, write_message
\* returns the serializer's error and the sink is as it was: the writer
\* holds the bytes it held before the call and no more (no header, no part
\* of the payload), no header was built, and the only thing the call did was
\* to serialize into its own buffer.  (The call has started once its log
\* has an entry.)
C28_FailedSerializeWritesNothing ==
    ( w_msg \in Unserializable /\ w_log # << >> )
    => /\ w_pc = "unserialized"
       /\ w_res = Err(Error("Serializer", "", 0))
       /\ Received = << >>
       /\ Len(w_inner.buf) = w_start
       /\ w_inner \in UNION { SinkWriters(held) : held \in Following("CborData") }
       /\ w_hdr = NoHeader
       /\ \A i \in 1 .. Len(w_log) : w_log[i].what = "serialize"
       /\ w_buf # << >>

\* The call has failed on a sink that held a message already, with part of
\* the payload in the private buffer.
C28_Witness ==
    /\ w_pc = "unserialized"
    /\ w_msg \in Unserializable
    /\ w_start > 0
    /\ w_res.tag = "Err"
    /\ Len(w_buf) > 2

====
